---------------------------- MODULE Spec2Model ----------------------------
(***************************************************************************)
(* FDMS -> Notion synchronisation scripts.                                 *)
(*                                                                         *)
(*   users-sync-to-notion.py     user records, diff + update + insert      *)
(*   fp-sync-to-notion.py        faculty/program records, synced flag      *)
(*                                                                         *)
(* Each script is a single-threaded batch job.  Every script has its own   *)
(* group of variables and its own specification; the groups of the other   *)
(* scripts stay at their idle value.                                       *)
(*                                                                         *)
(* Text values are sequences of one-character strings, so that strip()    *)
(* and letter case are computed rather than assumed.                       *)
(***************************************************************************)
EXTENDS Integers, Sequences, FiniteSets, TLC

VARIABLES
    \* values_are_equal applied to drawn inputs
    va, vb, eq_res,
    \* the users-sync differ applied to drawn snapshots
    df_mysql, df_notion, df_out,
    \* one run of users-sync-to-notion main()
    us_pc,          \* position in main()
    us_store,       \* the pages of the Notion database, in the server's order
    us_mysql,       \* mysql_records
    us_fetch,       \* all_records, has_more, start_cursor of the running fetch
    us_notion,      \* notion_records
    us_index,       \* notion_id_to_record_id
    us_lists,       \* new_records and update_records
    us_i,           \* position in the update or insert loop
    us_summary,     \* summary
    us_writes,      \* the write requests sent so far
    us_final,       \* outcome of the final verification
    us_hist,        \* what the operator typed at the two prompts of the run,
                    \* and the write requests in the order sent, with outcome
    fp_pc,          \* position in main() of fp-sync-to-notion
    fp_run,         \* runs started so far
    fp_mode,        \* FULL_CHECK_MODE of the running run
    fp_mysql,       \* the rows of the source query, with synced_to_notion
    fp_store,       \* the pages of the Notion database, in the server's order
    fp_fetch,       \* all_records, has_more, start_cursor, retry_attempts
    fp_notion,      \* notion_records
    fp_rows,        \* all_mysql_records
    fp_new,         \* new_records or unsynced_records
    fp_i,           \* position in the insert loop
    fp_cur,         \* retry count, insert_response and read-back of a record
    fp_summary,     \* summary
    fp_orphans,     \* orphaned_records
    fp_created,     \* ids of the pages the runs created
    fp_hist,        \* of the running run: whether it sent a create or a flag
                    \* update, the last answer to a database query, the
                    \* 429/504 answers in a row and the last cursor received
    \* link-records.py
    lr_pc,          \* position in main()
    lr_run,         \* runs started
    lr_db,          \* the faculty and the programs database of the server
    lr_q,           \* the running drain loop: start_cursor, records so far,
                    \* and attempt of the running query_database call
    lr_records,     \* faculty_records, programs_records
    lr_file,        \* lines of RELATIONS_FILE
    lr_match,       \* faculty_email_to_id, existing_relations, loop index
    lr_hist,        \* what the drain loops were answered, the requests of
                    \* the run, and the relations ever recorded
    \* the properties of insert_into_notion built from a drawn row
    pr_rec, pr_out,
    \* check-notion-duplicates: find_duplicates applied to drawn records
    cd_records, cd_out

eqVars == <<va, vb, eq_res>>

dfVars == <<df_mysql, df_notion, df_out>>

usVars == <<us_pc, us_store, us_mysql, us_fetch, us_notion, us_index, us_lists,
            us_i, us_summary, us_writes, us_final, us_hist>>

fpVars == <<fp_pc, fp_run, fp_mode, fp_mysql, fp_store, fp_fetch, fp_notion,
            fp_rows, fp_new, fp_i, fp_cur, fp_summary, fp_orphans, fp_created,
            fp_hist>>

lrVars == <<lr_pc, lr_run, lr_db, lr_q, lr_records, lr_file, lr_match,
            lr_hist>>

prVars == <<pr_rec, pr_out>>

cdVars == <<cd_records, cd_out>>

vars == <<eqVars, dfVars, usVars, fpVars, lrVars, prVars, cdVars>>

-----------------------------------------------------------------------------
(* Text values                                                             *)

\* Longest text drawn as an input of values_are_equal.
MaxStrLen == 3

\* Characters of the drawn texts: a letter in both cases and a blank.
Chars == {"a", "A", " "}

\* Python's None.  It is not a text: no text holds the element "None".
None == <<"None">>

Strings(n) == UNION {[1..k -> Chars] : k \in 0..n}

Values == {None} \cup Strings(MaxStrLen)

IsSpace(c) == c \in {" ", "\n"}

RECURSIVE lstrip(_)
lstrip(s) == IF s = <<>> THEN s
             ELSE IF IsSpace(Head(s)) THEN lstrip(Tail(s)) ELSE s

RECURSIVE rstrip(_)
rstrip(s) == IF s = <<>> THEN s
             ELSE IF IsSpace(s[Len(s)]) THEN rstrip(SubSeq(s, 1, Len(s) - 1)) ELSE s

\* str.strip(): leading and trailing whitespace removed.
strip(s) == rstrip(lstrip(s))

LowerChar(c) ==
    CASE c = "A" -> "a" [] c = "Y" -> "y" [] c = "E" -> "e" [] c = "S" -> "s"
      [] OTHER -> c

\* str.lower()
lower(s) == [i \in 1..Len(s) |-> LowerChar(s[i])]

\* A normalisation that also folds letter case.
normalize_value_casefold(value) == IF value = None THEN <<>> ELSE lower(strip(value))

normalize_value(value) == IF value = None THEN <<>> ELSE strip(value)

values_are_equal(val1, val2) == normalize_value(val1) = normalize_value(val2)

-----------------------------------------------------------------------------
(* users-sync-to-notion: records, pages, the differ                        *)

\* The seven compared columns of a source row.
Fields == {"first_name", "last_name", "email", "department", "college",
           "status", "chair_email"}

\* Notion properties held as a list of text runs (title / rich_text).
ListFields == {"first_name", "last_name", "email", "chair_email"}

Txt == <<"a">>

\* A source row whose seven columns all hold the text "a".
BaseRecord(i) ==
    [id |-> i, first_name |-> Txt, last_name |-> Txt, email |-> Txt,
     department |-> Txt, college |-> Txt, status |-> Txt, chair_email |-> Txt]

\* A Notion page that agrees with BaseRecord(n).  id is the page id; has_id
\* tells whether the page has an 'id' property, num is that property's number
\* (<<>> for null); list properties are lists of text contents; select
\* properties are a name or None.
BasePage(pid, n) ==
    [id |-> pid, has_id |-> TRUE, num |-> <<n>>,
     first_name |-> <<Txt>>, last_name |-> <<Txt>>, email |-> <<Txt>>,
     department |-> Txt, college |-> Txt, status |-> Txt,
     chair_email |-> <<Txt>>]

\* str() of a number or of None.
PyStr(num) == IF num = <<>> THEN "None" ELSE ToString(num[1])

\* str() of a text or of None.
PyStrText(v) == IF v = None THEN <<"N", "o", "n", "e">> ELSE v

EmptyIndex == [k \in {} |-> 0]

\* An index that keys every page by its position in the snapshot.
build_index_by_position(notion_records, n) ==
    [k \in {ToString(j) : j \in 1..n} |->
        notion_records[CHOOSE j \in 1..n : ToString(j) = k].id]

\* notion_id_to_record_id after the first n pages: str(number) -> page id, a
\* later page of the same number overwriting an earlier one; a page without
\* the 'id' property is printed and left out.
RECURSIVE build_index(_, _)
build_index(notion_records, n) ==
    IF n = 0 THEN EmptyIndex
    ELSE LET prev == build_index(notion_records, n - 1)
             page == notion_records[n]
         IN  IF page.has_id
             THEN (PyStr(page.num) :> page.id) @@ prev
             ELSE prev

notion_id_to_record_id(notion_records) ==
    build_index(notion_records, Len(notion_records))

\* dict.get(key): the page id, or 0 for None.
index_get(index, key) == IF key \in DOMAIN index THEN index[key] ELSE 0

\* next(page for page in notion_records if page['id'] == notion_record_id)
find_page(notion_records, notion_record_id) ==
    LET hits == {i \in 1..Len(notion_records) :
                    notion_records[i].id = notion_record_id}
    IN  notion_records[CHOOSE i \in hits : \A j \in hits : i <= j]

\* The in-place default of chair_email at the head of the loop body.
default_chair_email(record) ==
    [record EXCEPT !.chair_email = IF @ = None THEN <<>> ELSE @]

\* Python truthiness of a text or None.
Truthy(v) == v # None /\ v # <<>>

mysql_status(record) == IF Truthy(record.status) THEN record.status ELSE <<>>

notion_select(page, f) == IF Truthy(page[f]) THEN page[f] ELSE <<>>

notion_chair_email(page) ==
    IF page.chair_email # <<>> THEN page.chair_email[1] ELSE <<>>

\* [0] on an empty first_name, last_name or email list raises IndexError.
extract_raises(page) ==
    page.first_name = <<>> \/ page.last_name = <<>> \/ page.email = <<>>

\* A comparison that leaves out the college column.
update_needed_without_college(page, record) ==
    \/ ~values_are_equal(page.first_name[1], record.first_name)
    \/ ~values_are_equal(page.last_name[1], record.last_name)
    \/ ~values_are_equal(page.email[1], record.email)
    \/ ~values_are_equal(notion_select(page, "department"), record.department)
    \/ ~values_are_equal(notion_select(page, "status"), mysql_status(record))
    \/ ~values_are_equal(notion_chair_email(page), record.chair_email)

\* A comparison that finds every matched row in need of an update.
update_needed_always(page, record) == TRUE

update_needed(page, record) ==
    \/ ~values_are_equal(page.first_name[1], record.first_name)
    \/ ~values_are_equal(page.last_name[1], record.last_name)
    \/ ~values_are_equal(page.email[1], record.email)
    \/ ~values_are_equal(notion_select(page, "department"), record.department)
    \/ ~values_are_equal(notion_select(page, "college"), record.college)
    \/ ~values_are_equal(notion_select(page, "status"), mysql_status(record))
    \/ ~values_are_equal(notion_chair_email(page), record.chair_email)

\* The page id the index gives for a source row, 0 when there is none.
notion_record_id_of(record, notion_records) ==
    index_get(notion_id_to_record_id(notion_records), PyStr(<<record.id>>))

\* The classification loop over mysql_records.  With at most max_debug rows
\* every row is a debug row, so the debug print reads first_name, last_name
\* and email of every matched page and raises on an empty list.
classify(mysql_records, notion_records) ==
    LET recs == [i \in 1..Len(mysql_records) |->
                    default_chair_email(mysql_records[i])]
        matched(r) == notion_record_id_of(r, notion_records) # 0
        page_of(r) == find_page(notion_records,
                                notion_record_id_of(r, notion_records))
        raised == \E i \in 1..Len(recs) :
                     matched(recs[i]) /\ extract_raises(page_of(recs[i]))
        upd == SelectSeq(recs, LAMBDA r : matched(r) /\ update_needed(page_of(r), r))
    IN  IF raised
        THEN [raised |-> TRUE, mysql_records |-> recs,
              new_records |-> <<>>, update_records |-> <<>>]
        ELSE [raised |-> FALSE, mysql_records |-> recs,
              new_records |-> SelectSeq(recs, LAMBDA r : ~matched(r)),
              update_records |->
                  [i \in 1..Len(upd) |->
                      [notion_record_id |-> notion_record_id_of(upd[i], notion_records),
                       record |-> upd[i]]]]

\* A payload that carries the three optional selects even when they are None.
properties_with_null_selects(record) ==
    [email |-> PyStrText(record.email), first_name |-> record.first_name,
     last_name |-> record.last_name, id |-> record.id,
     chair_email |-> IF Truthy(record.chair_email) THEN record.chair_email ELSE <<>>,
     department |-> record.department, college |-> record.college,
     Status |-> record.status]

\* The properties update_notion_record and insert_into_notion send: email,
\* first_name, last_name, id and chair_email always; department, college and
\* Status only when the source value is not None.
properties(record) ==
    LET always == [email |-> PyStrText(record.email),
                   first_name |-> record.first_name,
                   last_name |-> record.last_name,
                   id |-> record.id,
                   chair_email |-> IF Truthy(record.chair_email)
                                   THEN record.chair_email ELSE <<>>]
        dep == IF record.department # None
               THEN ("department" :> record.department) ELSE EmptyIndex
        col == IF record.college # None
               THEN ("college" :> record.college) ELSE EmptyIndex
        sta == IF record.status # None
               THEN ("Status" :> record.status) ELSE EmptyIndex
    IN  always @@ dep @@ col @@ sta

-----------------------------------------------------------------------------
(* The users-sync differ on drawn snapshots                                *)

\* Pages get their page id from their position in the database.
WithIds(pages) == [i \in 1..Len(pages) |-> [pages[i] EXCEPT !.id = i]]

SrcAlts == {None, <<>>, <<"a", " ">>, <<"b">>}

ListAlts == {<<>>, <<<<>>>>, <<<<" ", "a">>>>, <<<<"b">>>>, <<<<"A">>>>}

SelectAlts == {None, <<"a", " ">>, <<"b">>, <<"A">>}

\* Source rows of id 1 that leave the base row in at most one column.
DrawnRecords ==
    {BaseRecord(1)} \cup
    {[BaseRecord(1) EXCEPT ![f] = v] : f \in Fields, v \in SrcAlts}

\* Pages of number 1 that leave the base page in at most one property.
DrawnPages ==
    {BasePage(1, 1)} \cup
    {[BasePage(1, 1) EXCEPT ![f] = v] : f \in ListFields, v \in ListAlts} \cup
    {[BasePage(1, 1) EXCEPT ![f] = v] : f \in Fields \ ListFields, v \in SelectAlts}

\* A second page: of another row, an orphan, a duplicate of number 1, a page
\* without the 'id' property, a page whose number is null.
OtherPages ==
    {BasePage(1, 2), BasePage(1, 3), BasePage(1, 1),
     [BasePage(1, 1) EXCEPT !.first_name = <<<<"b">>>>],
     [BasePage(1, 1) EXCEPT !.has_id = FALSE],
     [BasePage(1, 1) EXCEPT !.num = <<>>]}

DrawnSnapshots ==
    {<<>>} \cup {<<p>> : p \in DrawnPages}
           \cup {WithIds(<<p, o>>) : p \in DrawnPages, o \in OtherPages}
           \cup {WithIds(<<o, p>>) : p \in DrawnPages, o \in OtherPages}

NoResult == [raised |-> FALSE, mysql_records |-> <<>>, new_records |-> <<>>,
             update_records |-> <<>>]

DfIdle ==
    /\ df_mysql = <<>> /\ df_notion = <<>>
    /\ df_out = [st |-> "idle", res |-> NoResult, res2 |-> NoResult,
                 payloads |-> <<>>]

DfInit ==
    /\ df_mysql \in {<<r>> : r \in DrawnRecords}
                    \cup {<<r, BaseRecord(2)>> : r \in DrawnRecords}
    /\ df_notion \in DrawnSnapshots
    /\ df_out = [st |-> "none", res |-> NoResult, res2 |-> NoResult,
                 payloads |-> <<>>]

\* The classification loop ran to its end.
DfClassify ==
    /\ df_out.st = "none"
    /\ ~classify(df_mysql, df_notion).raised
    /\ df_out' = [df_out EXCEPT !.st = "classified",
                                !.res = classify(df_mysql, df_notion)]
    /\ UNCHANGED <<df_mysql, df_notion>>
    /\ UNCHANGED <<eqVars, usVars, fpVars, lrVars, prVars, cdVars>>

\* The classification loop raised IndexError: the run ends with a traceback.
DfClassifyRaises ==
    /\ df_out.st = "none"
    /\ classify(df_mysql, df_notion).raised
    /\ df_out' = [df_out EXCEPT !.st = "raised",
                                !.res = classify(df_mysql, df_notion)]
    /\ UNCHANGED <<df_mysql, df_notion>>
    /\ UNCHANGED <<eqVars, usVars, fpVars, lrVars, prVars, cdVars>>

\* The classification loop once more, on the same remote snapshot and on the
\* source rows as the first pass left them (chair_email defaulted in place).
DfClassifyAgain ==
    /\ df_out.st = "classified"
    /\ df_out' = [df_out EXCEPT
          !.st = "reclassified",
          !.res2 = classify(df_out.res.mysql_records, df_notion)]
    /\ UNCHANGED <<df_mysql, df_notion>>
    /\ UNCHANGED <<eqVars, usVars, fpVars, lrVars, prVars, cdVars>>

\* The request bodies the update loop sends, one per entry of update_records.
DfBuildPayloads ==
    /\ df_out.st = "classified"
    /\ df_out' = [df_out EXCEPT
          !.st = "built",
          !.payloads = [i \in 1..Len(df_out.res.update_records) |->
              [notion_record_id |-> df_out.res.update_records[i].notion_record_id,
               properties |-> properties(df_out.res.update_records[i].record)]]]
    /\ UNCHANGED <<df_mysql, df_notion>>
    /\ UNCHANGED <<eqVars, usVars, fpVars, lrVars, prVars, cdVars>>

-----------------------------------------------------------------------------
(* users-sync-to-notion: one run of main() against the Notion server       *)

\* Pages the database holds when the run starts, at most.
MaxStore == 2

\* Pages per query response; stands for page_size 100.
PageSize == 1

USER_CONFIRMATION_MODE == TRUE

ENABLE_SENDGRID == TRUE

Min(a, b) == IF a <= b THEN a ELSE b

\* The server's answer to a database query that it serves: the pages from the
\* cursor on (cursor 0 is no cursor), at most PageSize of them.
QueryPage(store, start_cursor) ==
    LET first == IF start_cursor = 0 THEN 1 ELSE start_cursor
        last  == Min(first + PageSize - 1, Len(store))
    IN  [kind |-> "page",
         results |-> SubSeq(store, first, last),
         has_more |-> last < Len(store),
         next_cursor |-> IF last < Len(store) THEN last + 1 ELSE 0]

\* A JSON body that is not a page: a rate-limit or error object.  It has no
\* 'results', no 'has_more' and no 'next_cursor'.
ErrorBody == [kind |-> "error_body", results |-> <<>>, has_more |-> FALSE,
              next_cursor |-> 0]

\* response_data.get('results', []), .get('has_more', False),
\* .get('next_cursor', None)
get_results(response_data) ==
    IF response_data.kind = "page" THEN response_data.results ELSE <<>>

get_has_more(response_data) ==
    IF response_data.kind = "page" THEN response_data.has_more ELSE FALSE

get_next_cursor(response_data) ==
    IF response_data.kind = "page" THEN response_data.next_cursor ELSE 0

\* One pass of the body of `while has_more` in fetch_notion_records.
fetch_iteration(f, response_data) ==
    [all_records |-> f.all_records \o get_results(response_data),
     has_more |-> get_has_more(response_data),
     start_cursor |-> get_next_cursor(response_data)]

FetchStart == [all_records |-> <<>>, has_more |-> TRUE, start_cursor |-> 0]

\* The text runs the server keeps for a written text content.
TextRuns(content) == IF content = <<>> THEN <<>> ELSE <<content>>

\* The page after a PATCH with the given properties: sent properties are
\* overwritten, the others stay.
ApplyProperties(page, props) ==
    [id |-> page.id, has_id |-> TRUE, num |-> <<props.id>>,
     first_name |-> TextRuns(props.first_name),
     last_name |-> TextRuns(props.last_name),
     email |-> TextRuns(props.email),
     chair_email |-> TextRuns(props.chair_email),
     department |-> IF "department" \in DOMAIN props
                    THEN props.department ELSE page.department,
     college |-> IF "college" \in DOMAIN props
                 THEN props.college ELSE page.college,
     status |-> IF "Status" \in DOMAIN props
                THEN props.Status ELSE page.status]

\* The page a POST with the given properties creates.
CreatePage(pid, props) ==
    ApplyProperties([BasePage(pid, props.id) EXCEPT
                        !.department = None, !.college = None, !.status = None],
                    props)

\* The server refuses a text property whose content is null.
ValidProperties(props) == props.first_name # None /\ props.last_name # None

\* The orphan scan reads first_name, last_name and email of every page whose
\* number is no source id with [0]; an empty list raises IndexError.
orphan_scan_raises(mysql_records, notion_records) ==
    LET mysql_ids == {PyStr(<<mysql_records[i].id>>) : i \in 1..Len(mysql_records)}
    IN  \E j \in 1..Len(notion_records) :
            /\ notion_records[j].has_id
            /\ PyStr(notion_records[j].num) \notin mysql_ids
            /\ extract_raises(notion_records[j])

orphaned_notion_records(mysql_records, notion_records) ==
    LET mysql_ids == {PyStr(<<mysql_records[i].id>>) : i \in 1..Len(mysql_records)}
    IN  SelectSeq(notion_records,
                  LAMBDA page : page.has_id /\ PyStr(page.num) \notin mysql_ids)

\* What the operator may type at a prompt.
Answers == {<<"y", "e", "s">>, <<" ", "Y", "e", "s">>, <<"n", "o">>, <<>>}

\* An answer read as 'yes' whatever was typed.
user_input_always_yes(raw) == <<"y", "e", "s">>

\* input().strip().lower()
user_input(raw) == lower(strip(raw))

Yes == <<"y", "e", "s">>

\* Source snapshots of a run: row 1 with or without a department, and
\* optionally row 2.
UsSnapshots ==
    LET r1s == {BaseRecord(1), [BaseRecord(1) EXCEPT !.department = None]}
    IN  {<<r>> : r \in r1s} \cup {<<r, BaseRecord(2)>> : r \in r1s}

\* Pages of a database: of row 1, of row 2 or of no row (number 3), with the
\* first name of the source or another one; and an orphan without first name.
UsPages ==
    {BasePage(1, n) : n \in 1..3} \cup
    {[BasePage(1, n) EXCEPT !.first_name = <<<<"b">>>>] : n \in 1..3} \cup
    {[BasePage(1, 3) EXCEPT !.first_name = <<>>]}

UsStores == UNION {{WithIds(st) : st \in [1..k -> UsPages]} : k \in 0..MaxStore}

\* The answers 'yes' is read from, and what is kept of an answer.
TypedYes == {<<"y", "e", "s">>, <<" ", "Y", "e", "s">>}

Typed(raw) == IF raw \in TypedYes THEN "yes" ELSE "other"

NoAnswers == [updates |-> "none", inserts |-> "none", requests |-> <<>>]

NoLists == [new_records |-> <<>>, update_records |-> <<>>, orphaned |-> <<>>]

NoFinal == [records |-> <<>>, remaining_updates |-> 0, in_sync |-> FALSE]

UsIdle ==
    /\ us_pc = "idle" /\ us_store = <<>> /\ us_mysql = <<>>
    /\ us_fetch = FetchStart /\ us_notion = <<>> /\ us_index = EmptyIndex
    /\ us_lists = NoLists /\ us_i = 0 /\ us_summary = <<>> /\ us_writes = {}
    /\ us_final = NoFinal /\ us_hist = NoAnswers

UsInit ==
    /\ us_pc = "fetch"
    /\ us_store \in UsStores
    /\ us_mysql \in UsSnapshots
    /\ us_fetch = FetchStart /\ us_notion = <<>> /\ us_index = EmptyIndex
    /\ us_lists = NoLists /\ us_i = 0 /\ us_summary = <<>> /\ us_writes = {}
    /\ us_final = NoFinal /\ us_hist = NoAnswers

FetchStages == {"fetch", "refresh", "final_fetch"}

\* One request of fetch_notion_records: the server answers with a page or with
\* an error body; when has_more comes out false the loop ends and the function
\* returns all_records (the `if has_more` after the loop cannot be true).
UsFetchStep ==
    /\ us_pc \in FetchStages
    /\ \E response_data \in {QueryPage(us_store, us_fetch.start_cursor), ErrorBody} :
        LET f == fetch_iteration(us_fetch, response_data)
        IN  /\ us_fetch' = f
            /\ IF f.has_more
               THEN UNCHANGED <<us_pc, us_notion, us_final>>
               ELSE CASE us_pc = "fetch" ->
                          /\ us_pc' = "classify"
                          /\ us_notion' = f.all_records
                          /\ UNCHANGED us_final
                      [] us_pc = "refresh" ->
                          /\ us_pc' = "verify_updates"
                          /\ us_notion' = f.all_records
                          /\ UNCHANGED us_final
                      [] us_pc = "final_fetch" ->
                          /\ us_pc' = "final_verify"
                          /\ us_final' = [us_final EXCEPT !.records = f.all_records]
                          /\ UNCHANGED us_notion
    /\ UNCHANGED <<us_store, us_mysql, us_index, us_lists, us_i, us_summary,
                   us_writes>>
    /\ UNCHANGED us_hist
    /\ UNCHANGED <<eqVars, dfVars, fpVars, lrVars, prVars, cdVars>>

\* requests.post raises, or the body is no JSON: the exception is not caught
\* and the run ends with a traceback.
UsFetchRaises ==
    /\ us_pc \in FetchStages
    /\ us_pc' = "crashed"
    /\ UNCHANGED <<us_store, us_mysql, us_fetch, us_notion, us_index, us_lists,
                   us_i, us_summary, us_writes, us_final>>
    /\ UNCHANGED us_hist
    /\ UNCHANGED <<eqVars, dfVars, fpVars, lrVars, prVars, cdVars>>

\* Index, classification loop, counts and orphan report.
UsClassify ==
    /\ us_pc = "classify"
    /\ LET res == classify(us_mysql, us_notion)
       IN  IF res.raised \/ orphan_scan_raises(res.mysql_records, us_notion)
           THEN /\ us_pc' = "crashed"
                /\ UNCHANGED <<us_mysql, us_index, us_lists, us_i>>
           ELSE /\ us_mysql' = res.mysql_records
                /\ us_index' = notion_id_to_record_id(us_notion)
                /\ us_lists' = [new_records |-> res.new_records,
                                update_records |-> res.update_records,
                                orphaned |-> orphaned_notion_records(
                                                res.mysql_records, us_notion)]
                /\ us_i' = 1
                /\ us_pc' = IF USER_CONFIRMATION_MODE /\ res.update_records # <<>>
                            THEN "confirm_updates" ELSE "update"
    /\ UNCHANGED <<us_store, us_fetch, us_notion, us_summary, us_writes, us_final>>
    /\ UNCHANGED us_hist
    /\ UNCHANGED <<eqVars, dfVars, fpVars, lrVars, prVars, cdVars>>

\* The prompt before the updates.
UsConfirmUpdates ==
    /\ us_pc = "confirm_updates"
    /\ \E raw \in Answers :
        /\ us_hist' = [us_hist EXCEPT !.updates = Typed(raw)]
        /\ us_lists' = IF user_input(raw) # Yes
                        THEN [us_lists EXCEPT !.update_records = <<>>]
                        ELSE us_lists
    /\ us_pc' = "update"
    /\ UNCHANGED <<us_store, us_mysql, us_fetch, us_notion, us_index, us_i,
                   us_summary, us_writes, us_final>>
    /\ UNCHANGED <<eqVars, dfVars, fpVars, lrVars, prVars, cdVars>>

Line(kind, id) == [kind |-> kind, id |-> id]

\* One pass of the update loop: the summary line is appended, then the PATCH
\* is sent; the server applies it, refuses it (an error status, 429 among
\* them: `not response.ok`), or the call raises.
UsUpdate ==
    /\ us_pc = "update"
    /\ us_i <= Len(us_lists.update_records)
    /\ LET u == us_lists.update_records[us_i]
           props == properties(u.record)
       IN  /\ us_writes' = us_writes \cup
                             {[op |-> "PATCH", page |-> u.notion_record_id]}
           /\ \E outcome \in {"ok", "refused", "raised"} :
                /\ outcome = "ok" => ValidProperties(props)
                /\ us_store' = IF outcome = "ok"
                               THEN [us_store EXCEPT ![u.notion_record_id] =
                                        ApplyProperties(@, props)]
                               ELSE us_store
                /\ us_hist' = [us_hist EXCEPT !.requests =
                                  Append(@, [op |-> "PATCH", rec |-> u.record.id,
                                             outcome |-> outcome])]
                /\ us_summary' =
                       IF outcome = "raised"
                       THEN us_summary \o <<Line("Updated", u.record.id),
                                            Line("ERROR updating", u.record.id)>>
                       ELSE Append(us_summary, Line("Updated", u.record.id))
    /\ us_i' = us_i + 1
    /\ UNCHANGED <<us_pc, us_mysql, us_fetch, us_notion, us_index, us_lists, us_final>>
    /\ UNCHANGED <<eqVars, dfVars, fpVars, lrVars, prVars, cdVars>>

\* The update loop is over: refresh_notion_records() starts.
UsUpdateDone ==
    /\ us_pc = "update"
    /\ us_i > Len(us_lists.update_records)
    /\ us_pc' = "refresh"
    /\ us_fetch' = FetchStart
    /\ UNCHANGED <<us_store, us_mysql, us_notion, us_index, us_lists, us_i,
                   us_summary, us_writes, us_final>>
    /\ UNCHANGED us_hist
    /\ UNCHANGED <<eqVars, dfVars, fpVars, lrVars, prVars, cdVars>>

\* The refreshed snapshot lacks a page, or shows an empty name or email.
verify_raises(update_records, notion_records) ==
    \E i \in 1..Min(3, Len(update_records)) :
        LET hits == {j \in 1..Len(notion_records) :
                        notion_records[j].id = update_records[i].notion_record_id}
        IN  \/ hits = {}
            \/ extract_raises(find_page(notion_records,
                                        update_records[i].notion_record_id))

\* The print of the first three updated records against the refreshed
\* snapshot; next() without default raises StopIteration on a missing page.
UsVerifyUpdates ==
    /\ us_pc = "verify_updates"
    /\ IF verify_raises(us_lists.update_records, us_notion)
       THEN us_pc' = "crashed"
       ELSE us_pc' = IF USER_CONFIRMATION_MODE /\ us_lists.new_records # <<>>
                     THEN "confirm_inserts" ELSE "insert"
    /\ us_i' = 1
    /\ UNCHANGED <<us_store, us_mysql, us_fetch, us_notion, us_index, us_lists,
                   us_summary, us_writes, us_final>>
    /\ UNCHANGED us_hist
    /\ UNCHANGED <<eqVars, dfVars, fpVars, lrVars, prVars, cdVars>>

\* The prompt before the inserts.
UsConfirmInserts ==
    /\ us_pc = "confirm_inserts"
    /\ \E raw \in Answers :
        /\ us_hist' = [us_hist EXCEPT !.inserts = Typed(raw)]
        /\ us_lists' = IF user_input(raw) # Yes
                        THEN [us_lists EXCEPT !.new_records = <<>>]
                        ELSE us_lists
    /\ us_pc' = "insert"
    /\ UNCHANGED <<us_store, us_mysql, us_fetch, us_notion, us_index, us_i,
                   us_summary, us_writes, us_final>>
    /\ UNCHANGED <<eqVars, dfVars, fpVars, lrVars, prVars, cdVars>>

\* One pass of the insert loop: the summary line is appended, then the POST is
\* sent; the server creates the page, refuses, or the call raises.
UsInsert ==
    /\ us_pc = "insert"
    /\ us_i <= Len(us_lists.new_records)
    /\ LET record == us_lists.new_records[us_i]
           props == properties(record)
       IN  /\ us_writes' = us_writes \cup {[op |-> "POST", page |-> 0]}
           /\ \E outcome \in {"ok", "refused", "raised"} :
                /\ outcome = "ok" => ValidProperties(props)
                /\ us_store' = IF outcome = "ok"
                               THEN Append(us_store,
                                           CreatePage(Len(us_store) + 1, props))
                               ELSE us_store
                /\ us_hist' = [us_hist EXCEPT !.requests =
                                  Append(@, [op |-> "POST", rec |-> record.id,
                                             outcome |-> outcome])]
                /\ us_summary' =
                       IF outcome = "raised"
                       THEN us_summary \o <<Line("Inserted", record.id),
                                            Line("ERROR inserting", record.id)>>
                       ELSE Append(us_summary, Line("Inserted", record.id))
    /\ us_i' = us_i + 1
    /\ UNCHANGED <<us_pc, us_mysql, us_fetch, us_notion, us_index, us_lists, us_final>>
    /\ UNCHANGED <<eqVars, dfVars, fpVars, lrVars, prVars, cdVars>>

\* The insert loop is over: the summary is mailed and the final fetch starts.
UsInsertDone ==
    /\ us_pc = "insert"
    /\ us_i > Len(us_lists.new_records)
    /\ us_pc' = "final_fetch"
    /\ us_fetch' = FetchStart
    /\ UNCHANGED <<us_store, us_mysql, us_notion, us_index, us_lists, us_i,
                   us_summary, us_writes, us_final>>
    /\ UNCHANGED us_hist
    /\ UNCHANGED <<eqVars, dfVars, fpVars, lrVars, prVars, cdVars>>

\* The rows the final verification can look up: in the index of the first
\* snapshot and with their page in the final snapshot.
final_checked(mysql_records, index, final_notion_records) ==
    {i \in 1..Len(mysql_records) :
        /\ index_get(index, PyStr(<<mysql_records[i].id>>)) # 0
        /\ \E j \in 1..Len(final_notion_records) :
              final_notion_records[j].id =
                  index_get(index, PyStr(<<mysql_records[i].id>>))}

still_needs_update(page, record) ==
    \/ ~values_are_equal(page.first_name[1], record.first_name)
    \/ ~values_are_equal(page.last_name[1], record.last_name)
    \/ ~values_are_equal(page.email[1], record.email)
    \/ ~values_are_equal(notion_select(page, "department"), record.department)
    \/ ~values_are_equal(notion_select(page, "college"), record.college)
    \/ ~values_are_equal(notion_select(page, "status"), mysql_status(record))
    \/ ~values_are_equal(notion_chair_email(page),
                         IF Truthy(record.chair_email) THEN record.chair_email
                         ELSE <<>>)

\* The final verification: remaining_updates over the rows it can look up.
UsFinalVerify ==
    /\ us_pc = "final_verify"
    /\ LET checked == final_checked(us_mysql, us_index, us_final.records)
           page_of(i) == find_page(us_final.records,
                                   index_get(us_index, PyStr(<<us_mysql[i].id>>)))
           remaining == Cardinality({i \in checked :
                                        still_needs_update(page_of(i), us_mysql[i])})
       IN  IF \E i \in checked : extract_raises(page_of(i))
           THEN us_pc' = "crashed" /\ UNCHANGED us_final
           ELSE /\ us_pc' = "done"
                /\ us_final' = [us_final EXCEPT !.remaining_updates = remaining,
                                                !.in_sync = (remaining = 0)]
    /\ UNCHANGED <<us_store, us_mysql, us_fetch, us_notion, us_index, us_lists,
                   us_i, us_summary, us_writes>>
    /\ UNCHANGED us_hist
    /\ UNCHANGED <<eqVars, dfVars, fpVars, lrVars, prVars, cdVars>>

-----------------------------------------------------------------------------
(* values_are_equal on drawn inputs                                        *)

EqIdle == va = None /\ vb = None /\ eq_res = [st |-> "idle", ab |-> FALSE, ba |-> FALSE]

EqInit ==
    /\ va \in Values /\ vb \in Values
    /\ eq_res = [st |-> "none", ab |-> FALSE, ba |-> FALSE]

\* One comparison of the drawn pair, in both argument orders.
Compare ==
    /\ eq_res.st = "none"
    /\ eq_res' = [st |-> "done", ab |-> values_are_equal(va, vb),
                  ba |-> values_are_equal(vb, va)]
    /\ UNCHANGED <<va, vb>>
    /\ UNCHANGED <<dfVars, usVars, fpVars, lrVars, prVars, cdVars>>

-----------------------------------------------------------------------------
(* fp-sync-to-notion: the properties insert_into_notion builds             *)

\* Characters of the drawn programs.Time texts: two digits, a blank and a
\* letter.
TimeChars == {"0", "1", " ", "a"}

\* Values of Time that are not str: the integers 0 and 5.
IntZero == <<"int 0">>

IntFive == <<"int 5">>

TimeValues ==
    {None, IntZero, IntFive} \cup UNION {[1..k -> TimeChars] : k \in 0..MaxStrLen}

\* Characters of the drawn Category texts: GROUP_CONCAT joins with ', '.
CategoryChars == {"a", ",", " "}

CategoryValues ==
    {None} \cup UNION {[1..k -> CategoryChars] : k \in 0..MaxStrLen}

\* bool(v) of a column value: None, 0 and '' are falsy.
time_truthy(v) == v \notin {None, IntZero, <<>>}

IsStr(v) == v \notin {None, IntZero, IntFive}

IsDigit(c) == c \in {"0", "1"}

\* float(s) raises ValueError unless s, without the whitespace around it,
\* is a numeral.
float_raises(s) ==
    LET t == strip(s)
    IN  t = <<>> \/ \E i \in 1..Len(t) : ~IsDigit(t[i])

RECURSIVE numeral_value(_)
numeral_value(t) ==
    IF t = <<>> THEN 0
    ELSE 10 * numeral_value(SubSeq(t, 1, Len(t) - 1))
         + (IF t[Len(t)] = "1" THEN 1 ELSE 0)

\* float(s) of a numeral
float_of(s) == numeral_value(strip(s))

\* A conversion that sends a blank text as 0.
time_number_blank_zero(Time) ==
    IF ~time_truthy(Time) THEN [raises |-> FALSE, number |-> <<>>]
    ELSE IF ~IsStr(Time) THEN [raises |-> TRUE, number |-> <<>>]
    ELSE IF strip(Time) = <<>> THEN [raises |-> FALSE, number |-> <<0>>]
    ELSE IF float_raises(Time) THEN [raises |-> TRUE, number |-> <<>>]
    ELSE [raises |-> FALSE, number |-> <<float_of(Time)>>]

\* float(record['Time']) if record['Time'] and record['Time'].strip()
\* else None; number is a list of none (null) or one number.  .strip() of
\* a value that is not str and float() of a text that is no numeral raise.
time_number(Time) ==
    IF ~time_truthy(Time) THEN [raises |-> FALSE, number |-> <<>>]
    ELSE IF ~IsStr(Time) THEN [raises |-> TRUE, number |-> <<>>]
    ELSE IF strip(Time) = <<>> THEN [raises |-> FALSE, number |-> <<>>]
    ELSE IF float_raises(Time) THEN [raises |-> TRUE, number |-> <<>>]
    ELSE [raises |-> FALSE, number |-> <<float_of(Time)>>]

\* s.split(', ')
RECURSIVE split_comma_blank(_)
split_comma_blank(s) ==
    LET at == {i \in 1..(Len(s) - 1) : s[i] = "," /\ s[i + 1] = " "}
    IN  IF at = {} THEN <<s>>
        ELSE LET i == CHOOSE i \in at : \A j \in at : i <= j
             IN  <<SubSeq(s, 1, i - 1)>>
                 \o split_comma_blank(SubSeq(s, i + 2, Len(s)))

\* [{"name": category.strip()} for category in record['Category'].split(', ')
\*  if category.strip()]; .split of None raises.
category_names(Category) ==
    IF Category = None THEN [raises |-> TRUE, names |-> <<>>]
    ELSE LET parts == split_comma_blank(Category)
         IN  [raises |-> FALSE,
              names |-> SelectSeq([k \in 1..Len(parts) |-> strip(parts[k])],
                                  LAMBDA name : name # <<>>)]

\* The Time and Category entries of `properties` in insert_into_notion, or
\* the exception that building them raises.
insert_properties(record) ==
    LET t == time_number(record.Time)
        c == category_names(record.Category)
    IN  [raises |-> t.raises \/ c.raises,
         time |-> IF t.raises \/ c.raises THEN <<>> ELSE t.number,
         category |-> IF t.raises \/ c.raises THEN <<>> ELSE c.names]

NotBuilt == [st |-> "none", raises |-> FALSE, time |-> <<>>, category |-> <<>>]

PrIdle == pr_rec = [Time |-> None, Category |-> None] /\ pr_out = [NotBuilt EXCEPT !.st = "idle"]

PrInit ==
    /\ pr_rec \in [Time : TimeValues, Category : CategoryValues]
    /\ pr_out = NotBuilt

\* insert_into_notion up to `data = {...}` on the drawn row.
PrBuild ==
    /\ pr_out.st = "none"
    /\ LET p == insert_properties(pr_rec)
       IN  pr_out' = [st |-> "built", raises |-> p.raises, time |-> p.time,
                      category |-> p.category]
    /\ UNCHANGED pr_rec
    /\ UNCHANGED <<eqVars, dfVars, usVars, fpVars, lrVars, cdVars>>

-----------------------------------------------------------------------------
(* fp-sync-to-notion: runs of main() against MySQL and the Notion server   *)

\* Runs of the script, at most.
MaxRuns == 2

\* Pages the faculty_program database holds before the first run, at most.
MaxFpStore == 2

FP_USER_CONFIRMATION_MODE == TRUE

TEST_MODE == FALSE

fetch_max_retries == 5

insert_max_retries == 5

\* The program every modelled row belongs to.
Program == 7

\* users.email of a user: user 1 has changed the address since the pages of
\* the database were written, the others have not.
FpEmail(uid) == IF uid = 1 THEN <<"b">> ELSE Txt

\* programs.Time of a user's program: NULL for user 1, the text '0' for the
\* others.
FpTime(uid) == IF uid = 1 THEN None ELSE <<"0">>

\* A row of the source query: (user_id, program_id) is its key, email, Time
\* and Category are among its other columns.
FpRow(uid, flag) ==
    [user_id |-> uid, program_id |-> Program, synced_to_notion |-> flag,
     email |-> FpEmail(uid), Time |-> FpTime(uid), Category |-> <<"a">>]

\* The row of a program that has no category: the LEFT JOIN finds nothing
\* and GROUP_CONCAT yields NULL.
FpRowNoCategory(uid, flag) == [FpRow(uid, flag) EXCEPT !.Category = None]

\* A page of the faculty_program database: the title runs of user_id, the
\* number of program_id (a list of none or one, none being null), the text
\* of email and the number of Time.
FpPage(pid, title, number) ==
    [id |-> pid, title |-> title, number |-> number, email |-> Txt,
     time |-> <<>>]

\* (str(r['user_id']), r['program_id'])
mysql_key(r) == <<ToString(r.user_id), <<r.program_id>>>>

\* (title[0]['text']['content'], number) of a page that has a title
notion_key(page) == <<page.title[1], page.number>>

\* The condition under which run_full_validation enters a page in
\* notion_lookup.
in_lookup(page) == page.title # <<>>

\* notion_lookup after the loop over notion_records: notion_lookup[key] = page
RECURSIVE notion_lookup(_)
notion_lookup(notion_records) ==
    IF notion_records = <<>> THEN <<>>
    ELSE LET n    == Len(notion_records)
             prev == notion_lookup(SubSeq(notion_records, 1, n - 1))
             page == notion_records[n]
         IN  IF in_lookup(page)
             THEN IF \E j \in 1..Len(prev) : notion_key(prev[j]) = notion_key(page)
                  THEN [j \in 1..Len(prev) |->
                           IF notion_key(prev[j]) = notion_key(page)
                           THEN page ELSE prev[j]]
                  ELSE Append(prev, page)
             ELSE prev

lookup_keys(lookup) == {notion_key(lookup[j]) : j \in 1..Len(lookup)}

\* new_records of run_full_validation: the rows whose key is not in
\* notion_lookup, in source order.
new_records_of(all_mysql_records, lookup) ==
    SelectSeq(all_mysql_records, LAMBDA r : mysql_key(r) \notin lookup_keys(lookup))

\* orphaned_records of run_full_validation
orphaned_records_of(all_mysql_records, lookup) ==
    LET keys == {mysql_key(all_mysql_records[i]) : i \in 1..Len(all_mysql_records)}
    IN  SelectSeq(lookup, LAMBDA page : notion_key(page) \notin keys)

\* WHERE faculty_program.synced_to_notion = FALSE
unsynced_of(table) == SelectSeq(table, LAMBDA r : ~r.synced_to_notion)

\* The UPDATE without its WHERE clause.
set_synced_every_row(table, user_id, program_id) ==
    [i \in 1..Len(table) |-> [table[i] EXCEPT !.synced_to_notion = TRUE]]

\* UPDATE faculty_program SET synced_to_notion = TRUE WHERE user_id = ...
set_synced(table, user_id, program_id) ==
    [i \in 1..Len(table) |->
        IF table[i].user_id = user_id /\ table[i].program_id = program_id
        THEN [table[i] EXCEPT !.synced_to_notion = TRUE] ELSE table[i]]

\* Answers of the server to a database query: a page of results, a rate
\* limit, a gateway time-out, another error status, or a 200 whose body is
\* not JSON.
QueryResponses(store, start_cursor) ==
    {[status |-> 200, json |-> TRUE, data |-> QueryPage(store, start_cursor)],
     [status |-> 200, json |-> FALSE, data |-> ErrorBody],
     [status |-> 429, json |-> TRUE, data |-> ErrorBody],
     [status |-> 504, json |-> FALSE, data |-> ErrorBody],
     [status |-> 500, json |-> TRUE, data |-> ErrorBody]}

\* Answers of a server whose pages overlap: the page asked for, preceded by
\* the item before the cursor, which an earlier page has delivered.
OverlapPage(store, start_cursor) ==
    LET page == QueryPage(store, start_cursor)
    IN  [page EXCEPT !.results = <<store[start_cursor - 1]>> \o @]

OverlapResponses(store, start_cursor) ==
    IF start_cursor > 1
    THEN {[status |-> 200, json |-> TRUE,
           data |-> OverlapPage(store, start_cursor)]}
    ELSE {}

FpFetchStart ==
    [all_records |-> <<>>, has_more |-> TRUE, start_cursor |-> 0,
     retry_attempts |-> 0, loop |-> "continue", unique_ids |-> {},
     warnings |-> <<>>]

\* `for record in records` at the end of a pass: unique_ids after it and the
\* ids the 'Duplicate record found' warnings name.
RECURSIVE track_unique_ids(_, _, _)
track_unique_ids(records, unique_ids, warnings) ==
    IF records = <<>>
    THEN [unique_ids |-> unique_ids, warnings |-> warnings]
    ELSE LET record_id == Head(records).id
         IN  IF record_id \in unique_ids
             THEN track_unique_ids(Tail(records), unique_ids,
                                   Append(warnings, record_id))
             ELSE track_unique_ids(Tail(records),
                                   unique_ids \cup {record_id}, warnings)

\* A pass that leaves out of all_records the items whose id it has seen.
fp_fetch_iteration_drops_seen(f, response) ==
    IF response.status \in {429, 504}
    THEN [f EXCEPT !.retry_attempts = f.retry_attempts + 1,
                   !.loop = IF f.retry_attempts + 1 > fetch_max_retries
                            THEN "break" ELSE "continue"]
    ELSE IF response.status >= 400 \/ ~response.json
    THEN [f EXCEPT !.loop = "break"]
    ELSE LET records == get_results(response.data)
             tracked == track_unique_ids(records, f.unique_ids, f.warnings)
         IN  [all_records |-> f.all_records \o
                     SelectSeq(records, LAMBDA r : r.id \notin f.unique_ids),
              has_more |-> get_has_more(response.data),
              start_cursor |-> get_next_cursor(response.data),
              retry_attempts |-> 0,
              loop |-> "continue",
              unique_ids |-> tracked.unique_ids,
              warnings |-> tracked.warnings]

\* A pass that keeps the retries spent on earlier pages when a page arrives.
fp_fetch_iteration_no_reset(f, response) ==
    IF response.status \in {429, 504}
    THEN [f EXCEPT !.retry_attempts = f.retry_attempts + 1,
                   !.loop = IF f.retry_attempts + 1 > fetch_max_retries
                            THEN "break" ELSE "continue"]
    ELSE IF response.status >= 400 \/ ~response.json
    THEN [f EXCEPT !.loop = "break"]
    ELSE LET records == get_results(response.data)
             tracked == track_unique_ids(records, f.unique_ids, f.warnings)
         IN  [all_records |-> f.all_records \o records,
              has_more |-> get_has_more(response.data),
              start_cursor |-> get_next_cursor(response.data),
              retry_attempts |-> f.retry_attempts,
              loop |-> "continue",
              unique_ids |-> tracked.unique_ids,
              warnings |-> tracked.warnings]

\* One pass of the body of `while has_more` in fetch_notion_records; loop
\* tells whether the pass ended in `continue`/the end of the body or in
\* `break`.
fp_fetch_iteration(f, response) ==
    IF response.status \in {429, 504}
    THEN [f EXCEPT !.retry_attempts = f.retry_attempts + 1,
                   !.loop = IF f.retry_attempts + 1 > fetch_max_retries
                            THEN "break" ELSE "continue"]
    ELSE IF response.status >= 400 \/ ~response.json
    THEN [f EXCEPT !.loop = "break"]
    ELSE LET records == get_results(response.data)
             tracked == track_unique_ids(records, f.unique_ids, f.warnings)
         IN  [all_records |-> f.all_records \o records,
              has_more |-> get_has_more(response.data),
              start_cursor |-> get_next_cursor(response.data),
              retry_attempts |-> 0,
              loop |-> "continue",
              unique_ids |-> tracked.unique_ids,
              warnings |-> tracked.warnings]

\* The test after the loop of fetch_notion_records that ends the process.
fetch_never_exits(f) == FALSE

fetch_exits(f) == f.has_more /\ ~TEST_MODE

\* Whether the loop of fetch_notion_records is left after the pass.
fetch_loop_ends(f) == f.loop = "break" \/ ~f.has_more

\* The properties insert_into_notion sends, as the page they create.
NewPage(pid, record) ==
    [FpPage(pid, <<ToString(record.user_id)>>, <<record.program_id>>)
        EXCEPT !.email = record.email,
               !.time = insert_properties(record).time]

\* Answers to the create request: the created page, a 2xx body without
\* 'id', a 2xx whose body is not JSON, a rate limit, another error status.
\* Only the first one comes with a page in the database.
PostResponses ==
    {[status |-> 200, json |-> TRUE,  has_id |-> TRUE,  stored |-> TRUE],
     [status |-> 200, json |-> TRUE,  has_id |-> FALSE, stored |-> FALSE],
     [status |-> 200, json |-> FALSE, has_id |-> FALSE, stored |-> FALSE],
     [status |-> 429, json |-> TRUE,  has_id |-> FALSE, stored |-> FALSE],
     [status |-> 500, json |-> TRUE,  has_id |-> FALSE, stored |-> FALSE]}

NoResponse == [kind |-> "unset", has_id |-> FALSE, id |-> 0]

\* A pass that sends the request again after any error status.
insert_iteration_retry_errors(retry_attempts, response, new_id) ==
    IF response.status >= 400
    THEN [retry_attempts |-> retry_attempts + 1,
          returns |-> ~(retry_attempts + 1 <= insert_max_retries),
          value |-> [kind |-> "None", has_id |-> FALSE, id |-> 0]]
    ELSE [retry_attempts |-> retry_attempts, returns |-> TRUE,
          value |-> IF response.json
                    THEN [kind |-> "json", has_id |-> response.has_id,
                          id |-> IF response.has_id THEN new_id ELSE 0]
                    ELSE [kind |-> "None", has_id |-> FALSE, id |-> 0]]

\* One pass of `while retry_attempts <= max_retries` in insert_into_notion:
\* the retry count after it and, when the function returns, its value
\* (None or the decoded body).
insert_iteration(retry_attempts, response, new_id) ==
    IF response.status = 429
    THEN [retry_attempts |-> retry_attempts + 1,
          returns |-> ~(retry_attempts + 1 <= insert_max_retries),
          value |-> [kind |-> "None", has_id |-> FALSE, id |-> 0]]
    ELSE IF response.status >= 400 \/ ~response.json
    THEN [retry_attempts |-> retry_attempts, returns |-> TRUE,
          value |-> [kind |-> "None", has_id |-> FALSE, id |-> 0]]
    ELSE [retry_attempts |-> retry_attempts, returns |-> TRUE,
          value |-> [kind |-> "json", has_id |-> response.has_id,
                     id |-> IF response.has_id THEN new_id ELSE 0]]

\* `not notion_response or 'id' not in notion_response`: None and {} are
\* falsy.
no_receipt(notion_response) ==
    notion_response.kind = "None" \/ ~notion_response.has_id

\* A validate_notion_receipt that logs one line for every refusal.
receipt_error_one_line(notion_response, verification) ==
    IF no_receipt(notion_response) \/ ~verification
    THEN "Failed to create record in Notion" ELSE "none"

\* The error validate_notion_receipt logs: for a response without id, for a
\* negative verification, or none.
receipt_error(notion_response, verification) ==
    IF no_receipt(notion_response) THEN "Failed to create record in Notion"
    ELSE IF ~verification THEN "Record verification failed for"
    ELSE "none"

NoGet == [status |-> 0, raised |-> FALSE, notion_id |-> 0,
          title |-> <<>>, number |-> <<>>]

\* Answers to GET /v1/pages/<notion_id>: the page as stored, the page with
\* an edited or emptied title, an error status, or no answer (the request
\* raises).
GetResponses(store, notion_id) ==
    (IF notion_id \in 1..Len(store)
     THEN LET page == store[notion_id]
          IN  {[status |-> 200, raised |-> FALSE, notion_id |-> notion_id,
                title |-> t, number |-> page.number] :
                   t \in {page.title, <<"0">>, <<>>}}
     ELSE {}) \cup
    {[status |-> 404, raised |-> FALSE, notion_id |-> notion_id,
      title |-> <<>>, number |-> <<>>],
     [status |-> 0, raised |-> TRUE, notion_id |-> notion_id,
      title |-> <<>>, number |-> <<>>]}

verify_status_only(response, record) ==
    ~response.raised /\ response.status = 200

\* verify_notion_record_exists on the answer to its GET; title[0] of an
\* empty title raises and the except clause returns False.
verify_notion_record_exists(response, record) ==
    IF response.raised THEN FALSE
    ELSE IF response.status = 200
    THEN IF response.title = <<>> THEN FALSE
         ELSE /\ ToString(record.user_id) = response.title[1]
              /\ <<record.program_id>> = response.number
    ELSE FALSE

\* The summary line of an inserted record.
FpLine(record) == <<"Inserted", record.user_id, record.program_id>>

\* The source table before the first run: row 1, optionally row 2, each
\* synced or not; or the unsynced row of a program without category,
\* followed by row 2.
FpTables ==
    {<<FpRow(1, a)>> : a \in BOOLEAN} \cup
    {<<FpRow(1, a), FpRow(2, b)>> : a, b \in BOOLEAN} \cup
    {<<FpRowNoCategory(1, FALSE), FpRow(2, b)>> : b \in BOOLEAN}

\* Pages of the database before the first run: of row 1, of row 2, of no
\* row (user 3), or without a title.
FpPages ==
    {FpPage(1, <<ToString(u)>>, <<Program>>) : u \in 1..3} \cup
    {FpPage(1, <<>>, <<Program>>)}

FpStores == UNION {{WithIds(st) : st \in [1..k -> FpPages]} : k \in 0..MaxFpStore}

NoQuery == [page |-> FALSE, has_more |-> FALSE, retryable |-> FALSE, cursor |-> 0]

NoHist == [wrote |-> FALSE, last |-> NoQuery, answer |-> "none",
           streak |-> 0, cursor_given |-> 0, source_failed |-> FALSE,
           creates |-> <<>>, persisted |-> {}, delivered |-> <<>>,
           calls |-> <<>>,
           report |-> [user_id |-> 0, line |-> "none", had_id |-> FALSE,
                       matched |-> FALSE]]

NoCur == [retry_attempts |-> 0, insert_response |-> NoResponse, get |-> NoGet,
          events |-> <<>>, posts |-> 0, post_status |-> 0, post_json |-> FALSE]

FpIdle ==
    /\ fp_pc = "idle" /\ fp_run = 0 /\ fp_mode = "none"
    /\ fp_mysql = <<>> /\ fp_store = <<>>
    /\ fp_fetch = FpFetchStart /\ fp_notion = <<>> /\ fp_rows = <<>>
    /\ fp_new = <<>> /\ fp_i = 0 /\ fp_cur = NoCur /\ fp_summary = <<>>
    /\ fp_orphans = <<>> /\ fp_created = {} /\ fp_hist = NoHist

FpInit ==
    /\ fp_pc = "start" /\ fp_run = 0 /\ fp_mode = "none"
    /\ fp_mysql \in FpTables /\ fp_store \in FpStores
    /\ fp_fetch = FpFetchStart /\ fp_notion = <<>> /\ fp_rows = <<>>
    /\ fp_new = <<>> /\ fp_i = 0 /\ fp_cur = NoCur /\ fp_summary = <<>>
    /\ fp_orphans = <<>> /\ fp_created = {} /\ fp_hist = NoHist

\* The process is not running: before the first run, after main() returned,
\* after exit(1) or after an uncaught exception.
FpStopped == fp_pc \in {"start", "exited", "crashed"}

\* main() with FULL_CHECK_MODE set, up to the first Notion request:
\* fetch_all_mysql_records returns the rows, or [] on a database error.
FpStartFull ==
    /\ FpStopped /\ fp_run < MaxRuns
    /\ fp_run' = fp_run + 1
    /\ fp_mode' = "full"
    /\ \E db_ok \in BOOLEAN :
        /\ fp_rows' = IF db_ok THEN fp_mysql ELSE <<>>
        /\ fp_hist' = [NoHist EXCEPT !.source_failed = ~db_ok]
    /\ fp_pc' = "fetch"
    /\ fp_fetch' = FpFetchStart
    /\ fp_notion' = <<>> /\ fp_new' = <<>> /\ fp_i' = 0 /\ fp_cur' = NoCur
    /\ fp_summary' = <<>> /\ fp_orphans' = <<>>
    /\ UNCHANGED <<fp_mysql, fp_store, fp_created>>
    /\ UNCHANGED <<eqVars, dfVars, usVars, lrVars, prVars, cdVars>>

\* main() with FULL_CHECK_MODE unset, up to the prompt:
\* fetch_unsynced_mysql_records returns the unsynced rows, or [] on a
\* database error; with no rows run_incremental_sync returns [].
FpStartIncremental ==
    /\ FpStopped /\ fp_run < MaxRuns
    /\ fp_run' = fp_run + 1
    /\ fp_mode' = "incremental"
    /\ \E db_ok \in BOOLEAN :
        LET unsynced_records == IF db_ok THEN unsynced_of(fp_mysql) ELSE <<>>
        IN  /\ fp_new' = unsynced_records
            /\ fp_pc' = IF unsynced_records = <<>> THEN "finish" ELSE "confirm"
            /\ fp_hist' = [NoHist EXCEPT !.source_failed = ~db_ok]
    /\ fp_fetch' = FpFetchStart
    /\ fp_notion' = <<>> /\ fp_rows' = <<>> /\ fp_i' = 0 /\ fp_cur' = NoCur
    /\ fp_summary' = <<>> /\ fp_orphans' = <<>>
    /\ UNCHANGED <<fp_mysql, fp_store, fp_created>>
    /\ UNCHANGED <<eqVars, dfVars, usVars, lrVars, prVars, cdVars>>

\* One request of fetch_notion_records and, when the loop is left, the test
\* after it: exit(1) or return all_records.
FpFetchStep ==
    /\ fp_pc = "fetch"
    /\ \E response \in QueryResponses(fp_store, fp_fetch.start_cursor) :
        LET f == fp_fetch_iteration(fp_fetch, response)
        IN  /\ fp_fetch' = f
            /\ fp_hist' = [fp_hist EXCEPT
                  !.last = [page |-> response.status = 200 /\ response.json,
                            has_more |-> response.data.has_more,
                            retryable |-> response.status \in {429, 504},
                            cursor |-> fp_fetch.start_cursor],
                  !.streak = IF response.status \in {429, 504}
                             THEN @ + 1 ELSE 0,
                  !.cursor_given = IF response.status = 200 /\ response.json
                                   THEN response.data.next_cursor ELSE @,
                  !.delivered = IF response.status = 200 /\ response.json
                                THEN @ \o [k \in 1..Len(response.data.results)
                                              |-> response.data.results[k].id]
                                ELSE @]
            /\ IF fetch_loop_ends(f)
               THEN IF fetch_exits(f)
                    THEN fp_pc' = "exited" /\ UNCHANGED fp_notion
                    ELSE fp_pc' = "validate" /\ fp_notion' = f.all_records
               ELSE UNCHANGED <<fp_pc, fp_notion>>
    /\ UNCHANGED <<fp_run, fp_mode, fp_mysql, fp_store, fp_rows, fp_new, fp_i,
                   fp_cur, fp_summary, fp_orphans, fp_created>>
    /\ UNCHANGED <<eqVars, dfVars, usVars, lrVars, prVars, cdVars>>

\* One request of fetch_notion_records that a server with overlapping
\* pages answers, and the test after the loop when it is left.
FpFetchOverlap ==
    /\ fp_pc = "fetch"
    /\ \E response \in OverlapResponses(fp_store, fp_fetch.start_cursor) :
        LET f == fp_fetch_iteration(fp_fetch, response)
        IN  /\ fp_fetch' = f
            /\ fp_hist' = [fp_hist EXCEPT
                  !.last = [page |-> response.status = 200 /\ response.json,
                            has_more |-> response.data.has_more,
                            retryable |-> response.status \in {429, 504},
                            cursor |-> fp_fetch.start_cursor],
                  !.streak = IF response.status \in {429, 504}
                             THEN @ + 1 ELSE 0,
                  !.cursor_given = IF response.status = 200 /\ response.json
                                   THEN response.data.next_cursor ELSE @,
                  !.delivered = IF response.status = 200 /\ response.json
                                THEN @ \o [k \in 1..Len(response.data.results)
                                              |-> response.data.results[k].id]
                                ELSE @]
            /\ IF fetch_loop_ends(f)
               THEN IF fetch_exits(f)
                    THEN fp_pc' = "exited" /\ UNCHANGED fp_notion
                    ELSE fp_pc' = "validate" /\ fp_notion' = f.all_records
               ELSE UNCHANGED <<fp_pc, fp_notion>>
    /\ UNCHANGED <<fp_run, fp_mode, fp_mysql, fp_store, fp_rows, fp_new, fp_i,
                   fp_cur, fp_summary, fp_orphans, fp_created>>
    /\ UNCHANGED <<eqVars, dfVars, usVars, lrVars, prVars, cdVars>>

\* requests.post of the query raises (no connection): nothing catches it.
FpFetchRaises ==
    /\ fp_pc = "fetch"
    /\ fp_pc' = "crashed"
    /\ UNCHANGED <<fp_run, fp_mode, fp_mysql, fp_store, fp_fetch, fp_notion,
                   fp_rows, fp_new, fp_i, fp_cur, fp_summary, fp_orphans,
                   fp_created, fp_hist>>
    /\ UNCHANGED <<eqVars, dfVars, usVars, lrVars, prVars, cdVars>>

\* Every row whose flag is unset, whatever the lookup holds.
rows_to_mark_unsynced(all_mysql_records, lookup) ==
    {i \in 1..Len(all_mysql_records) : ~all_mysql_records[i].synced_to_notion}

\* The rows run_full_validation calls mark_record_as_synced for: key in
\* notion_lookup and flag not set in the fetched row.
rows_to_mark(all_mysql_records, lookup) ==
    {i \in 1..Len(all_mysql_records) :
        /\ mysql_key(all_mysql_records[i]) \in lookup_keys(lookup)
        /\ ~all_mysql_records[i].synced_to_notion}

RECURSIVE mark_all(_, _, _)
mark_all(table, all_mysql_records, marked) ==
    IF marked = {} THEN table
    ELSE LET i == CHOOSE i \in marked : TRUE
         IN  mark_all(set_synced(table, all_mysql_records[i].user_id,
                                 all_mysql_records[i].program_id),
                      all_mysql_records, marked \ {i})

\* run_full_validation from the lookup tables to new_records: every row
\* whose key is in notion_lookup and whose flag is unset is marked synced
\* (each UPDATE succeeds or fails), the other keys' rows are new.
FpValidate ==
    /\ fp_pc = "validate"
    /\ LET lookup  == notion_lookup(fp_notion)
           to_mark == rows_to_mark(fp_rows, lookup)
           new     == new_records_of(fp_rows, lookup)
       IN  /\ \E marked \in SUBSET to_mark :
                fp_mysql' = mark_all(fp_mysql, fp_rows, marked)
           /\ fp_hist' = [fp_hist EXCEPT !.wrote = @ \/ to_mark # {}]
           /\ fp_new' = new
           /\ fp_i' = IF new = <<>> THEN 0 ELSE 1
           /\ fp_pc' = IF new = <<>> THEN "orphans" ELSE "insert"
    /\ UNCHANGED <<fp_run, fp_mode, fp_store, fp_fetch, fp_notion, fp_rows,
                   fp_cur, fp_summary, fp_orphans, fp_created>>
    /\ UNCHANGED <<eqVars, dfVars, usVars, lrVars, prVars, cdVars>>

\* The prompt of run_incremental_sync.
FpConfirm ==
    /\ fp_pc = "confirm"
    /\ \E raw \in Answers :
        /\ fp_hist' = [fp_hist EXCEPT !.answer = Typed(raw)]
        /\ IF FP_USER_CONFIRMATION_MODE /\ ~TEST_MODE /\ user_input(raw) # Yes
           THEN fp_pc' = "finish" /\ fp_i' = 0
           ELSE fp_pc' = "insert" /\ fp_i' = 1
    /\ UNCHANGED <<fp_run, fp_mode, fp_mysql, fp_store, fp_fetch, fp_notion,
                   fp_rows, fp_new, fp_cur, fp_summary, fp_orphans,
                   fp_created>>
    /\ UNCHANGED <<eqVars, dfVars, usVars, lrVars, prVars, cdVars>>

\* Where the insert loop goes after the record at position i.
after_record(mode, new, i) ==
    IF i < Len(new) THEN "insert"
    ELSE IF mode = "full" THEN "orphans" ELSE "finish"

\* One create request of insert_into_notion for the record at position
\* fp_i; when the function returns, its value is kept for
\* validate_notion_receipt.
FpPost ==
    /\ fp_pc = "insert"
    /\ ~insert_properties(fp_new[fp_i]).raises
    /\ \E response \in PostResponses :
        LET record == fp_new[fp_i]
            new_id == Len(fp_store) + 1
            it     == insert_iteration(fp_cur.retry_attempts, response, new_id)
        IN  /\ fp_store' = IF response.stored
                           THEN Append(fp_store, NewPage(new_id, record))
                           ELSE fp_store
            /\ fp_created' = IF response.stored
                             THEN fp_created \cup {new_id} ELSE fp_created
            /\ fp_cur' = [fp_cur EXCEPT
                             !.retry_attempts = it.retry_attempts,
                             !.insert_response =
                                 IF it.returns THEN it.value ELSE NoResponse,
                             !.events = IF fp_cur.events = <<>>
                                        THEN <<"POST">> ELSE fp_cur.events,
                             !.posts = fp_cur.posts + 1,
                             !.post_status = response.status,
                             !.post_json = response.json]
            /\ fp_pc' = IF it.returns THEN "receipt" ELSE "insert"
            /\ fp_hist' = [fp_hist EXCEPT
                  !.wrote = TRUE,
                  !.creates = IF fp_cur.posts = 0
                              THEN Append(@, record.user_id) ELSE @,
                  !.calls = IF fp_cur.posts = 0
                            THEN Append(@, record.user_id) ELSE @]
    /\ UNCHANGED <<fp_run, fp_mode, fp_mysql, fp_fetch, fp_notion, fp_rows,
                   fp_new, fp_i, fp_summary, fp_orphans>>
    /\ UNCHANGED <<eqVars, dfVars, usVars, lrVars, prVars, cdVars>>

\* Building `properties` raises at the start of insert_into_notion: no
\* caller catches it.
FpBuildRaises ==
    /\ fp_pc = "insert"
    /\ insert_properties(fp_new[fp_i]).raises
    /\ fp_pc' = "crashed"
    /\ fp_cur' = [fp_cur EXCEPT !.events = <<"raise">>]
    /\ fp_hist' = [fp_hist EXCEPT !.calls = Append(@, fp_new[fp_i].user_id)]
    /\ UNCHANGED <<fp_run, fp_mode, fp_mysql, fp_store, fp_fetch, fp_notion,
                   fp_rows, fp_new, fp_i, fp_summary, fp_orphans,
                   fp_created>>
    /\ UNCHANGED <<eqVars, dfVars, usVars, lrVars, prVars, cdVars>>

\* requests.post of the create raises (no connection): nothing catches it.
FpPostRaises ==
    /\ fp_pc = "insert"
    /\ ~insert_properties(fp_new[fp_i]).raises
    /\ fp_pc' = "crashed"
    /\ fp_hist' = [fp_hist EXCEPT
          !.wrote = TRUE,
          !.calls = IF fp_cur.posts = 0
                    THEN Append(@, fp_new[fp_i].user_id) ELSE @]
    /\ UNCHANGED <<fp_run, fp_mode, fp_mysql, fp_store, fp_fetch, fp_notion,
                   fp_rows, fp_new, fp_i, fp_cur, fp_summary, fp_orphans,
                   fp_created>>
    /\ UNCHANGED <<eqVars, dfVars, usVars, lrVars, prVars, cdVars>>

\* validate_notion_receipt up to `if verification`: without an id it
\* returns False; otherwise the page is read back by its id.
FpReadBack ==
    /\ fp_pc = "receipt"
    /\ LET record == fp_new[fp_i]
           notion_response == fp_cur.insert_response
           had_id == /\ fp_cur.post_status = 200 /\ fp_cur.post_json
                     /\ notion_response.has_id
       IN  IF no_receipt(notion_response)
           THEN /\ fp_pc' = after_record(fp_mode, fp_new, fp_i)
                /\ fp_i' = fp_i + 1
                /\ fp_cur' = NoCur
                /\ fp_hist' = [fp_hist EXCEPT !.report =
                      [user_id |-> record.user_id,
                       line |-> receipt_error(notion_response, FALSE),
                       had_id |-> had_id, matched |-> FALSE]]
           ELSE \E response \in GetResponses(fp_store, notion_response.id) :
                   LET verification ==
                           verify_notion_record_exists(response, record)
                   IN  IF verification
                       THEN /\ fp_pc' = "mark"
                            /\ fp_cur' = [fp_cur EXCEPT
                                  !.get = response,
                                  !.events = Append(fp_cur.events, "GET")]
                            /\ UNCHANGED <<fp_i, fp_hist>>
                       ELSE /\ fp_pc' = after_record(fp_mode, fp_new, fp_i)
                            /\ fp_i' = fp_i + 1
                            /\ fp_cur' = NoCur
                            /\ fp_hist' = [fp_hist EXCEPT !.report =
                                  [user_id |-> record.user_id,
                                   line |-> receipt_error(notion_response,
                                                          verification),
                                   had_id |-> had_id,
                                   matched |->
                                       /\ ~response.raised
                                       /\ response.status = 200
                                       /\ response.title =
                                              <<ToString(record.user_id)>>
                                       /\ response.number =
                                              <<record.program_id>>]]
    /\ UNCHANGED <<fp_run, fp_mode, fp_mysql, fp_store, fp_fetch, fp_notion,
                   fp_rows, fp_new, fp_summary, fp_orphans, fp_created>>
    /\ UNCHANGED <<eqVars, dfVars, usVars, lrVars, prVars, cdVars>>

\* validate_notion_receipt after a positive verification:
\* mark_record_as_synced succeeds or fails, and the caller appends the
\* summary line when it succeeded.
FpMark ==
    /\ fp_pc = "mark"
    /\ LET record == fp_new[fp_i]
       IN  \E success \in BOOLEAN :
              /\ fp_mysql' = IF success
                             THEN set_synced(fp_mysql, record.user_id,
                                             record.program_id)
                             ELSE fp_mysql
              /\ fp_summary' = IF success
                               THEN Append(fp_summary, FpLine(record))
                               ELSE fp_summary
              /\ fp_hist' = [fp_hist EXCEPT
                    !.persisted =
                        IF success
                        THEN @ \cup
                             {[user_id |-> record.user_id,
                               receipt |-> /\ fp_cur.post_status = 200
                                           /\ fp_cur.post_json
                                           /\ fp_cur.insert_response.has_id,
                               verified |->
                                   /\ ~fp_cur.get.raised
                                   /\ fp_cur.get.status = 200
                                   /\ fp_cur.get.title =
                                          <<ToString(record.user_id)>>
                                   /\ fp_cur.get.number =
                                          <<record.program_id>>]}
                        ELSE @]
    /\ fp_pc' = after_record(fp_mode, fp_new, fp_i)
    /\ fp_i' = fp_i + 1
    /\ fp_cur' = NoCur
    /\ UNCHANGED <<fp_run, fp_mode, fp_store, fp_fetch, fp_notion, fp_rows,
                   fp_new, fp_orphans, fp_created>>
    /\ UNCHANGED <<eqVars, dfVars, usVars, lrVars, prVars, cdVars>>

\* The orphan report at the end of run_full_validation: log lines only.
FpReportOrphans ==
    /\ fp_pc = "orphans"
    /\ fp_orphans' = orphaned_records_of(fp_rows, notion_lookup(fp_notion))
    /\ fp_pc' = "finish"
    /\ UNCHANGED <<fp_run, fp_mode, fp_mysql, fp_store, fp_fetch, fp_notion,
                   fp_rows, fp_new, fp_i, fp_cur, fp_summary, fp_created,
                   fp_hist>>
    /\ UNCHANGED <<eqVars, dfVars, usVars, lrVars, prVars, cdVars>>

\* The rest of main(): the summary mail, and the process ends.
FpFinish ==
    /\ fp_pc = "finish"
    /\ fp_pc' = "start"
    /\ UNCHANGED <<fp_run, fp_mode, fp_mysql, fp_store, fp_fetch, fp_notion,
                   fp_rows, fp_new, fp_i, fp_cur, fp_summary, fp_orphans,
                   fp_created, fp_hist>>
    /\ UNCHANGED <<eqVars, dfVars, usVars, lrVars, prVars, cdVars>>

-----------------------------------------------------------------------------
(* link-records.py: faculty pages are linked to program pages by email     *)

\* Longest faculty and programs database.
MaxLinkStore == 2

MAX_RETRIES == 5

\* A faculty page: its id and the rich-text runs of its title property
\* 'email'.  The second page holds the first one's address in another
\* spelling, the third has no address.
FacultyPage(n) ==
    CASE n = 1 -> [id |-> "f1", email |-> <<<<"a">>>>]
      [] n = 2 -> [id |-> "f2", email |-> <<<<"A", " ">>>>]
      [] OTHER -> [id |-> "f3", email |-> <<>>]

ProgramIds == <<"p1", "p2", "p3">>

\* A program page: its id and the runs of its rich-text property 'email'.
ProgramEmails == {<<>>, <<<<" ", "A">>>>, <<<<"b">>>>}

FacultyStores == {[n \in 1..k |-> FacultyPage(n)] : k \in 0..MaxLinkStore}

ProgramStores ==
    UNION {{[n \in 1..k |-> [id |-> ProgramIds[n], email |-> e[n]]] :
                e \in [1..k -> ProgramEmails]} : k \in 0..MaxLinkStore}

\* Answers of the server to a database query: a page of results, a 200
\* whose JSON body has no 'results', a 200 whose body is not JSON, a rate
\* limit, a gateway time-out, another error status, or no answer at all
\* (status 0: requests.post raises a RequestException).
LinkResponses(store, start_cursor) ==
    {[status |-> 200, json |-> TRUE, data |-> QueryPage(store, start_cursor)],
     [status |-> 200, json |-> TRUE, data |-> ErrorBody],
     [status |-> 200, json |-> FALSE, data |-> ErrorBody],
     [status |-> 429, json |-> TRUE, data |-> ErrorBody],
     [status |-> 504, json |-> FALSE, data |-> ErrorBody],
     [status |-> 500, json |-> TRUE, data |-> ErrorBody],
     [status |-> 0, json |-> FALSE, data |-> ErrorBody]}

\* A query_database that gives up at the first answer that is an error other
\* than a rate limit or a gateway time-out.
query_database_attempt_retry_429_504(attempt, response) ==
    IF response.status = 200 /\ response.json THEN "return"
    ELSE IF response.status \in {429, 504} /\ attempt + 1 < MAX_RETRIES
    THEN "retry" ELSE "raise"

\* A query_database whose loop makes one pass more.
query_database_attempt_one_more(attempt, response) ==
    IF response.status = 200 /\ response.json THEN "return"
    ELSE IF attempt < MAX_RETRIES THEN "retry" ELSE "raise"

\* One pass of `for attempt in range(MAX_RETRIES)` of query_database: the
\* decoded body is returned; an HTTPError, a RequestException and a ValueError
\* are all caught and the loop goes on; after the last pass the function
\* raises.
query_database_attempt(attempt, response) ==
    IF response.status = 200 /\ response.json THEN "return"
    ELSE IF attempt + 1 < MAX_RETRIES THEN "retry" ELSE "raise"

LrDrainStart ==
    [records |-> <<>>, start_cursor |-> 0, attempt |-> 0, loop |-> "continue"]

\* A drain loop that asks for the page after the one the server named.
drain_iteration_skips(q, data) ==
    IF data.kind # "page" THEN [q EXCEPT !.attempt = 0, !.loop = "break"]
    ELSE [records |-> q.records \o data.results,
          start_cursor |-> IF data.has_more THEN data.next_cursor + 1
                           ELSE q.start_cursor,
          attempt |-> 0,
          loop |-> IF data.has_more THEN "continue" ELSE "break"]

\* One pass of `while True` in main() on the body query_database returned.
drain_iteration(q, data) ==
    IF data.kind # "page" THEN [q EXCEPT !.attempt = 0, !.loop = "break"]
    ELSE [records |-> q.records \o data.results,
          start_cursor |-> IF data.has_more THEN data.next_cursor
                           ELSE q.start_cursor,
          attempt |-> 0,
          loop |-> IF data.has_more THEN "continue" ELSE "break"]

\* A normalisation that keeps the letter case.
normalize_email_keeps_case(plain_text) == strip(plain_text)

\* email_data[0]['plain_text'].strip().lower()
normalize_email(plain_text) == lower(strip(plain_text))

\* faculty_email_to_id: the last page of an address wins.
RECURSIVE faculty_email_to_id(_)
faculty_email_to_id(faculty_records) ==
    IF faculty_records = <<>> THEN <<>>
    ELSE LET n     == Len(faculty_records)
             rec   == faculty_records[n]
             index == faculty_email_to_id(SubSeq(faculty_records, 1, n - 1))
         IN  IF rec.email # <<>>
             THEN LET email == normalize_email(rec.email[1])
                  IN  [e \in DOMAIN index \cup {email} |->
                          IF e = email THEN rec.id ELSE index[e]]
             ELSE index

\* f"{program['id']},{faculty_id}"
relation_key(program_id, faculty_id) == <<program_id, ",", faculty_id>>

\* What save_relation appends to the file.
relation_line(relation) == relation \o <<"\n">>

\* A start-up that reads nothing from the file.
load_nothing(file) == {}

\* load_existing_relations
load_existing_relations(file) == {strip(file[k]) : k \in 1..Len(file)}

\* Relations recorded by earlier runs of the program.
LedgerDraws ==
    {<<>>, <<relation_key("p1", "f1")>>, <<relation_key("p1", "f2")>>}

\* Answers to the PATCH of update_relation: done, refused, or none at all.
PatchOutcomes == {"ok", "refused", "raises"}

\* An update_relation that returns the body of every answer.
update_relation_returns_any_body(outcome) == "json"

\* What update_relation returns on an answer: response.json() on status
\* 200, None on any other.
update_relation(outcome) == IF outcome = "ok" THEN "json" ELSE "None"

NoDrain == [page |-> FALSE, retryable |-> FALSE, failed |-> FALSE,
            cursor |-> 0, cursor_given |-> 0]

NoLinkHist ==
    [last |-> NoDrain, complete |-> {}, requests |-> {}, loaded |-> {},
     patched |-> <<>>, start_len |-> 0]

NoMatch == [index |-> <<>>, existing |-> {}, i |-> 0]

NoRecords == [faculty |-> <<>>, programs |-> <<>>]

LrIdle ==
    /\ lr_pc = "idle" /\ lr_run = 0
    /\ lr_db = NoRecords /\ lr_q = LrDrainStart /\ lr_records = NoRecords
    /\ lr_file = <<>> /\ lr_match = NoMatch
    /\ lr_hist = [run |-> NoLinkHist, recorded |-> {}, failed_before |-> {}]

LrInit ==
    /\ lr_pc = "start" /\ lr_run = 0
    /\ lr_db \in [faculty : FacultyStores, programs : ProgramStores]
    /\ lr_q = LrDrainStart /\ lr_records = NoRecords
    /\ \E keys \in LedgerDraws :
          /\ lr_file = [k \in 1..Len(keys) |-> relation_line(keys[k])]
          /\ lr_hist = [run |-> NoLinkHist,
                        recorded |-> {keys[k] : k \in 1..Len(keys)},
                        failed_before |-> {}]
    /\ lr_match = NoMatch

\* The process is not running.
LrStopped == lr_pc \in {"start", "done", "crashed"}

\* main() up to the first query.
LrStart ==
    /\ LrStopped /\ lr_run < MaxRuns
    /\ lr_run' = lr_run + 1
    /\ lr_pc' = "faculty"
    /\ lr_q' = LrDrainStart
    /\ lr_records' = NoRecords
    /\ lr_match' = NoMatch
    /\ lr_hist' = [lr_hist EXCEPT
          !.run = [NoLinkHist EXCEPT !.start_len = Len(lr_file)],
          !.failed_before =
              {lr_hist.run.patched[k].key : k \in 1..Len(lr_hist.run.patched)}
              \ lr_hist.recorded]
    /\ UNCHANGED <<lr_db, lr_file>>
    /\ UNCHANGED <<eqVars, dfVars, usVars, fpVars, prVars, cdVars>>

\* One request of query_database inside one of the two drain loops and what
\* follows it: the next attempt, the exception after the last attempt, or the
\* pass of the drain loop on the returned body and, when the loop is left,
\* the next stage of main().
LrQuery ==
    /\ lr_pc \in {"faculty", "programs"}
    /\ \E response \in LinkResponses(lr_db[lr_pc], lr_q.start_cursor) :
        LET outcome == query_database_attempt(lr_q.attempt, response)
            q       == drain_iteration(lr_q, response.data)
            page    == response.status = 200 /\ response.json
                       /\ response.data.kind = "page"
            last    == [page |-> page,
                        retryable |-> response.status \in {429, 504},
                        failed |-> ~(response.status = 200 /\ response.json),
                        cursor |-> lr_q.start_cursor,
                        cursor_given |->
                            IF page THEN response.data.next_cursor
                            ELSE lr_hist.run.last.cursor_given]
            ended   == page /\ ~response.data.has_more
        IN  /\ lr_hist' = [lr_hist EXCEPT
                  !.run.last = IF outcome = "return" /\ q.loop = "break"
                               THEN [last EXCEPT !.cursor_given = 0] ELSE last,
                  !.run.complete = IF ended THEN @ \cup {lr_pc} ELSE @]
            /\ CASE outcome = "retry" ->
                      /\ lr_q' = [lr_q EXCEPT !.attempt = lr_q.attempt + 1]
                      /\ UNCHANGED <<lr_pc, lr_records>>
                 [] outcome = "raise" ->
                      /\ lr_pc' = "crashed"
                      /\ UNCHANGED <<lr_q, lr_records>>
                 [] outcome = "return" /\ q.loop = "continue" ->
                      /\ lr_q' = q
                      /\ UNCHANGED <<lr_pc, lr_records>>
                 [] outcome = "return" /\ q.loop = "break" ->
                      /\ lr_records' = [lr_records EXCEPT ![lr_pc] = q.records]
                      /\ lr_q' = LrDrainStart
                      /\ lr_pc' = IF lr_pc = "faculty" THEN "programs"
                                  ELSE "load"
    /\ UNCHANGED <<lr_run, lr_db, lr_file, lr_match>>
    /\ UNCHANGED <<eqVars, dfVars, usVars, fpVars, prVars, cdVars>>

\* One request of query_database that a server with overlapping pages
\* answers, and the pass of the drain loop on the returned body.
LrQueryOverlap ==
    /\ lr_pc \in {"faculty", "programs"}
    /\ \E response \in OverlapResponses(lr_db[lr_pc], lr_q.start_cursor) :
        LET outcome == query_database_attempt(lr_q.attempt, response)
            q       == drain_iteration(lr_q, response.data)
            page    == response.status = 200 /\ response.json
                       /\ response.data.kind = "page"
            last    == [page |-> page,
                        retryable |-> response.status \in {429, 504},
                        failed |-> ~(response.status = 200 /\ response.json),
                        cursor |-> lr_q.start_cursor,
                        cursor_given |->
                            IF page THEN response.data.next_cursor
                            ELSE lr_hist.run.last.cursor_given]
            ended   == page /\ ~response.data.has_more
        IN  /\ lr_hist' = [lr_hist EXCEPT
                  !.run.last = IF outcome = "return" /\ q.loop = "break"
                               THEN [last EXCEPT !.cursor_given = 0] ELSE last,
                  !.run.complete = IF ended THEN @ \cup {lr_pc} ELSE @]
            /\ CASE outcome = "retry" ->
                      /\ lr_q' = [lr_q EXCEPT !.attempt = lr_q.attempt + 1]
                      /\ UNCHANGED <<lr_pc, lr_records>>
                 [] outcome = "raise" ->
                      /\ lr_pc' = "crashed"
                      /\ UNCHANGED <<lr_q, lr_records>>
                 [] outcome = "return" /\ q.loop = "continue" ->
                      /\ lr_q' = q
                      /\ UNCHANGED <<lr_pc, lr_records>>
                 [] outcome = "return" /\ q.loop = "break" ->
                      /\ lr_records' = [lr_records EXCEPT ![lr_pc] = q.records]
                      /\ lr_q' = LrDrainStart
                      /\ lr_pc' = IF lr_pc = "faculty" THEN "programs"
                                  ELSE "load"
    /\ UNCHANGED <<lr_run, lr_db, lr_file, lr_match>>
    /\ UNCHANGED <<eqVars, dfVars, usVars, fpVars, prVars, cdVars>>

\* The index of the faculty pages is built and the file is read.
LrLoad ==
    /\ lr_pc = "load"
    /\ lr_match' = [index |-> faculty_email_to_id(lr_records.faculty),
                    existing |-> load_existing_relations(lr_file),
                    i |-> 1]
    /\ lr_hist' = [lr_hist EXCEPT !.run.loaded = lr_hist.recorded]
    /\ lr_pc' = "match"
    /\ UNCHANGED <<lr_run, lr_db, lr_q, lr_records, lr_file>>
    /\ UNCHANGED <<eqVars, dfVars, usVars, fpVars, prVars, cdVars>>

\* One pass of `for program in programs_records`.
LrMatch ==
    /\ lr_pc = "match"
    /\ lr_match.i <= Len(lr_records.programs)
    /\ LET program == lr_records.programs[lr_match.i]
           prog_email == normalize_email(program.email[1])
           faculty_id == lr_match.index[prog_email]
           relation == relation_key(program.id, faculty_id)
           next == [lr_match EXCEPT !.i = lr_match.i + 1]
       IN  IF /\ program.email # <<>>
              /\ prog_email \in DOMAIN lr_match.index
              /\ relation \notin lr_match.existing
           THEN \E outcome \in PatchOutcomes :
                 /\ lr_hist' = [lr_hist EXCEPT
                       !.run.requests = @ \cup {relation},
                       !.run.patched =
                           Append(@, [key |-> relation, outcome |-> outcome]),
                       !.recorded = IF outcome = "ok" THEN @ \cup {relation}
                                    ELSE @]
                 /\ CASE outcome = "raises" ->
                           /\ lr_pc' = "crashed"
                           /\ UNCHANGED <<lr_match, lr_file>>
                      [] outcome # "raises"
                         /\ update_relation(outcome) # "None" ->
                           /\ lr_match' = [next EXCEPT
                                 !.existing = @ \cup {relation}]
                           /\ lr_file' = Append(lr_file, relation_line(relation))
                           /\ UNCHANGED lr_pc
                      [] outcome # "raises"
                         /\ update_relation(outcome) = "None" ->
                           /\ lr_match' = next
                           /\ UNCHANGED <<lr_pc, lr_file>>
           ELSE /\ lr_match' = next
                /\ UNCHANGED <<lr_pc, lr_file, lr_hist>>
    /\ UNCHANGED <<lr_run, lr_db, lr_q, lr_records>>
    /\ UNCHANGED <<eqVars, dfVars, usVars, fpVars, prVars, cdVars>>

\* The loop is over: the totals are printed and main() returns.
LrFinish ==
    /\ lr_pc = "match"
    /\ lr_match.i > Len(lr_records.programs)
    /\ lr_pc' = "done"
    /\ UNCHANGED <<lr_run, lr_db, lr_q, lr_records, lr_file, lr_match, lr_hist>>
    /\ UNCHANGED <<eqVars, dfVars, usVars, fpVars, prVars, cdVars>>

-----------------------------------------------------------------------------
(* check-notion-duplicates.py: records grouped by email                    *)

\* Most records fetched.
MaxDupRecords == 3

\* A fetched record: the runs of its title property 'email', and whether
\* one of the subscripts of extract_user_info raises on it.
DupRecord(pid, title, broken) == [id |-> pid, title |-> title, broken |-> broken]

\* Records drawn: an address in either letter case, another address, an
\* empty text, no title run, or a record extraction fails on.
DupKinds ==
    {DupRecord(0, <<<<"a">>>>, FALSE), DupRecord(0, <<<<"A">>>>, FALSE),
     DupRecord(0, <<<<"b">>>>, FALSE), DupRecord(0, <<<<>>>>, FALSE),
     DupRecord(0, <<>>, FALSE), DupRecord(0, <<<<"a">>>>, TRUE)}

DupInputs ==
    UNION {{WithIds(recs) : recs \in [1..k -> DupKinds]} : k \in 0..MaxDupRecords}

\* extract_user_info: None when a subscript raises, else the dictionary, of
\* which notion_id and email are kept.
extract_user_info(notion_record) ==
    IF notion_record.broken
    THEN [ok |-> FALSE, notion_id |-> notion_record.id, email |-> <<>>]
    ELSE [ok |-> TRUE, notion_id |-> notion_record.id,
          email |-> IF notion_record.title # <<>>
                    THEN notion_record.title[1] ELSE <<>>]

\* A key that keeps the letter case of the address.
group_key_exact(email) == email

\* user_info['email'].lower()
group_key(email) == lower(email)

\* email_groups after the loop of find_duplicates: per key the notion_ids
\* of its records, in the order fetched.
RECURSIVE email_groups(_)
email_groups(notion_records) ==
    IF notion_records = <<>> THEN <<>>
    ELSE LET n    == Len(notion_records)
             prev == email_groups(SubSeq(notion_records, 1, n - 1))
             user_info == extract_user_info(notion_records[n])
             key  == group_key(user_info.email)
         IN  IF user_info.ok /\ user_info.email # <<>>
             THEN [e \in DOMAIN prev \cup {key} |->
                      IF e = key
                      THEN (IF e \in DOMAIN prev THEN prev[e] ELSE <<>>)
                           \o <<user_info.notion_id>>
                      ELSE prev[e]]
             ELSE prev

\* invalid_records after the loop: the records without an address and the
\* records extraction failed on.
RECURSIVE invalid_records(_)
invalid_records(notion_records) ==
    IF notion_records = <<>> THEN <<>>
    ELSE LET n    == Len(notion_records)
             prev == invalid_records(SubSeq(notion_records, 1, n - 1))
             user_info == extract_user_info(notion_records[n])
         IN  IF user_info.ok /\ user_info.email # <<>>
             THEN prev ELSE Append(prev, user_info.notion_id)

\* find_duplicates
find_duplicates(notion_records) ==
    LET groups == email_groups(notion_records)
    IN  [duplicates |->
             [e \in {k \in DOMAIN groups : Len(groups[k]) > 1} |-> groups[e]],
         unique_records |->
             [e \in {k \in DOMAIN groups : Len(groups[k]) = 1} |-> groups[e][1]],
         invalid_records |-> invalid_records(notion_records)]

NoGroups == [duplicates |-> <<>>, unique_records |-> <<>>,
             invalid_records |-> <<>>]

\* The 'Total records analyzed' line of generate_report:
\* len(duplicates) + len(unique_records) + len(invalid_records), the first
\* two being dictionaries keyed by address.
total_records_analyzed(duplicates, unique_records, invalid) ==
    Cardinality(DOMAIN duplicates) + Cardinality(DOMAIN unique_records)
        + Len(invalid)

\* The figures printed: 'Total records analyzed' of the report and of the
\* final console summary.
NoFigures == [report |-> 0, console |-> 0]

CdIdle ==
    /\ cd_records = <<>>
    /\ cd_out = [st |-> "idle", res |-> NoGroups, total |-> NoFigures]

CdInit ==
    /\ cd_records \in DupInputs
    /\ cd_out = [st |-> "none", res |-> NoGroups, total |-> NoFigures]

\* main() from the fetched records to the end: find_duplicates, the report
\* of generate_report and the final console summary.
CdFindDuplicates ==
    /\ cd_out.st = "none"
    /\ cd_records # <<>>
    /\ LET res == find_duplicates(cd_records)
       IN  cd_out' = [st |-> "done", res |-> res,
                      total |->
                          [report |-> total_records_analyzed(
                                          res.duplicates, res.unique_records,
                                          res.invalid_records),
                           console |-> Len(cd_records)]]
    /\ UNCHANGED cd_records
    /\ UNCHANGED <<eqVars, dfVars, usVars, fpVars, lrVars, prVars>>

\* `if not notion_records`: nothing to analyse, main() returns.
CdNoRecords ==
    /\ cd_out.st = "none"
    /\ cd_records = <<>>
    /\ cd_out' = [cd_out EXCEPT !.st = "empty"]
    /\ UNCHANGED cd_records
    /\ UNCHANGED <<eqVars, dfVars, usVars, fpVars, lrVars, prVars>>

-----------------------------------------------------------------------------
(* Specifications                                                          *)

InitEq == EqInit /\ DfIdle /\ UsIdle /\ FpIdle /\ LrIdle /\ PrIdle /\ CdIdle

NextEq == Compare

SpecEq == InitEq /\ [][NextEq]_vars

InitDiff == DfInit /\ EqIdle /\ UsIdle /\ FpIdle /\ LrIdle /\ PrIdle /\ CdIdle

NextDiff ==
    DfClassify \/ DfClassifyRaises \/ DfClassifyAgain \/ DfBuildPayloads

SpecDiff == InitDiff /\ [][NextDiff]_vars

InitUsers == UsInit /\ EqIdle /\ DfIdle /\ FpIdle /\ LrIdle /\ PrIdle /\ CdIdle

NextUsers ==
    \/ UsFetchStep \/ UsFetchRaises \/ UsClassify \/ UsConfirmUpdates
    \/ UsUpdate \/ UsUpdateDone \/ UsVerifyUpdates \/ UsConfirmInserts
    \/ UsInsert \/ UsInsertDone \/ UsFinalVerify

SpecUsers == InitUsers /\ [][NextUsers]_vars

InitFp == FpInit /\ EqIdle /\ DfIdle /\ UsIdle /\ LrIdle /\ PrIdle /\ CdIdle

NextFp ==
    \/ FpStartFull \/ FpStartIncremental \/ FpFetchStep \/ FpFetchRaises
    \/ FpValidate \/ FpConfirm \/ FpBuildRaises \/ FpPost \/ FpPostRaises
    \/ FpReadBack
    \/ FpMark \/ FpReportOrphans \/ FpFinish

SpecFp == InitFp /\ [][NextFp]_vars

\* fetch_notion_records of full validation against a server whose pages may
\* overlap, up to its return or exit.
NextFetch == FpStartFull \/ FpFetchStep \/ FpFetchOverlap \/ FpFetchRaises

SpecFetch == InitFp /\ [][NextFetch]_vars

InitProps ==
    PrInit /\ EqIdle /\ DfIdle /\ UsIdle /\ FpIdle /\ LrIdle /\ CdIdle

NextProps == PrBuild

SpecProps == InitProps /\ [][NextProps]_vars

InitDup ==
    CdInit /\ EqIdle /\ DfIdle /\ UsIdle /\ FpIdle /\ LrIdle /\ PrIdle

NextDup == CdFindDuplicates \/ CdNoRecords

SpecDup == InitDup /\ [][NextDup]_vars

InitLink == LrInit /\ EqIdle /\ DfIdle /\ UsIdle /\ FpIdle /\ PrIdle /\ CdIdle

NextLink == LrStart \/ LrQuery \/ LrLoad \/ LrMatch \/ LrFinish

SpecLink == InitLink /\ [][NextLink]_vars

\* Runs of link-records against a server whose pages may overlap.
NextRelink == NextLink \/ LrQueryOverlap

SpecRelink == InitLink /\ [][NextRelink]_vars

\* The two programs that read a database page by page.
InitPaging == InitFp \/ InitLink

NextPaging == NextFp \/ NextLink

SpecPaging == InitPaging /\ [][NextPaging]_vars

\* Both drivers, each on its own database.
InitSync == InitUsers \/ InitFp

NextSync == NextUsers \/ NextFp

SpecSync == InitSync /\ [][NextSync]_vars

-----------------------------------------------------------------------------
(* Claims                                                                  *)

Compared == eq_res.st = "done"

IsBlank(s) == \A i \in 1..Len(s) : IsSpace(s[i])

\* b is a with blanks added in front and behind.
Padded(a, b) ==
    /\ a # None /\ b # None
    /\ \E i \in 0..Len(b) : \E j \in i..Len(b) :
          /\ IsBlank(SubSeq(b, 1, i))
          /\ SubSeq(b, i + 1, j) = a
          /\ IsBlank(SubSeq(b, j + 1, Len(b)))

\* a and b are texts of one length that agree up to letter case, and differ.
CaseVariant(a, b) ==
    /\ a # None /\ b # None /\ a # b
    /\ Len(a) = Len(b)
    /\ \A i \in 1..Len(a) : LowerChar(a[i]) = LowerChar(b[i])

\* C9: values_are_equal(None, "") holds; the comparison is reflexive,
\* symmetric and transitive; it equates None with the empty text and a text
\* with its padded forms; it never equates two texts that differ in letter case.
C9_NormalizedEquality ==
    Compared =>
        /\ (va = None /\ vb = <<>>) => eq_res.ab
        /\ (va = vb) => eq_res.ab
        /\ eq_res.ab = eq_res.ba
        /\ \A c \in Values :
              (eq_res.ab /\ values_are_equal(vb, c)) => values_are_equal(va, c)
        /\ Padded(va, vb) => eq_res.ab
        /\ CaseVariant(va, vb) => ~eq_res.ab

\* Two texts that differ only in leading/trailing blanks were compared and
\* found equal.
C9_Witness ==
    /\ Compared
    /\ va = <<" ", "a">> /\ vb = <<"a", " ">>
    /\ eq_res.ab

-----------------------------------------------------------------------------
(* users-sync differ: C8, C10                                              *)

\* The text a page shows for a compared column: the first text run of a list
\* property ('' for an empty list), the name of a select ('' for none).
RemoteValue(page, f) ==
    IF f \in ListFields
    THEN (IF page[f] = <<>> THEN <<>> ELSE page[f][1])
    ELSE (IF page[f] = None THEN <<>> ELSE page[f])

\* The compared columns in which a page and a source row differ.
DiffFields(page, record) ==
    {f \in Fields : ~values_are_equal(RemoteValue(page, f), record[f])}

\* The keys of the remote index: str(number) of every page that has the
\* 'id' property.
RemoteKeys(notion_records) ==
    {PyStr(notion_records[j].num) :
        j \in {k \in 1..Len(notion_records) : notion_records[k].has_id}}

DfClassified == df_out.st \in {"classified", "built"}

\* The page the differ pairs a source row with.
DfPageOf(record) ==
    find_page(df_notion, notion_record_id_of(record, df_notion))

DfTimesNew(record) ==
    Cardinality({j \in 1..Len(df_out.res.new_records) :
                    df_out.res.new_records[j].id = record.id})

DfTimesUpdate(record) ==
    Cardinality({j \in 1..Len(df_out.res.update_records) :
                    df_out.res.update_records[j].record.id = record.id})

PropertyOf(f) == IF f = "status" THEN "Status" ELSE f

DfBuilt == df_out.st = "built"

WholeRowProperties(record) ==
    {"email", "first_name", "last_name", "id", "chair_email"} \cup
    {PropertyOf(f) : f \in {g \in {"department", "college", "status"} :
                               record[g] # None}}

-----------------------------------------------------------------------------
(* users-sync run: C2, C7                                                  *)

\* The first fetch has returned and nothing has been written yet.
UsFetched == us_pc \in {"classify", "confirm_updates"}

\* C2 as stated: when fetch_notion_records returns, the snapshot holds every
\* page of the database, and no source row whose page exists in the database
\* is classified as new.
C2_SnapshotCompleteOrAbort ==
    /\ us_pc = "classify" => us_notion = us_store
    /\ us_pc = "confirm_updates" =>
           \A i \in 1..Len(us_lists.new_records) :
               ToString(us_lists.new_records[i].id) \notin RemoteKeys(us_store)

\* The first page two pages of one number come in, in snapshot order.
FirstPageOfKey(notion_records, key) ==
    LET hits == {j \in 1..Len(notion_records) :
                    /\ notion_records[j].has_id
                    /\ PyStr(notion_records[j].num) = key}
    IN  notion_records[CHOOSE j \in hits : \A k \in hits : j <= k]

\* C7 as stated: when pages of one snapshot share a key, the source row of
\* that key is compared with, and its update addressed to, the page that
\* comes first in the snapshot; the later page is never the target.
C7_FirstPageWins ==
    DfClassified =>
        \A i \in 1..Len(df_mysql) :
            LET r == df_mysql[i]
            IN  ToString(r.id) \in RemoteKeys(df_notion) =>
                    LET first == FirstPageOfKey(df_notion, ToString(r.id))
                    IN  /\ (DfTimesUpdate(r) = 1) <=> (DiffFields(first, r) # {})
                        /\ \A j \in 1..Len(df_out.res.update_records) :
                              df_out.res.update_records[j].record.id = r.id =>
                                  df_out.res.update_records[j].notion_record_id
                                      = first.id

\* The last answer to a database query of the running fp-sync run was a
\* page with has_more = false.
LastPageSeen == fp_hist.last.page /\ ~fp_hist.last.has_more

\* C1: in fp-sync-to-notion fetch_notion_records returns only when the last
\* processed answer was a page with has_more = false, and then it returns
\* every page of the database; when the fetch ends in any other way the
\* process has ended and the run has sent no create and no flag update, and
\* no run in full validation writes before its fetch has returned.
C1_FetchReturnsAllOrExits ==
    /\ fp_pc = "validate" => LastPageSeen /\ fp_notion = fp_store
    /\ fp_pc = "fetch" => ~fp_hist.wrote
    /\ fp_pc = "exited" => ~fp_hist.wrote /\ ~LastPageSeen
    /\ (fp_mode = "full" /\ fp_hist.wrote) => LastPageSeen

\* A fetch that had read a page gave up on the next one after six rate
\* limits or time-outs, and the process exited.
C1_Witness ==
    /\ fp_pc = "exited"
    /\ fp_fetch.all_records # <<>>
    /\ fp_fetch.retry_attempts > fetch_max_retries

\* The row at position i of the source table gets its flag set in the step.
Flipped(i) == ~fp_mysql[i].synced_to_notion /\ fp_mysql'[i].synced_to_notion

\* The record being inserted has been created, the page of the returned id
\* has been read back after that, and the answer was a 200 carrying the
\* identity of row r.
ReadBackPositive(r) ==
    /\ fp_pc = "mark"
    /\ fp_cur.events = <<"POST", "GET">>
    /\ fp_cur.insert_response.kind = "json" /\ fp_cur.insert_response.has_id
    /\ fp_cur.insert_response.id \in fp_created
    /\ fp_cur.get.notion_id = fp_cur.insert_response.id
    /\ ~fp_cur.get.raised /\ fp_cur.get.status = 200
    /\ fp_cur.get.title = <<ToString(r.user_id)>>
    /\ fp_cur.get.number = <<r.program_id>>

\* C3: in the insert loop of fp-sync-to-notion a row's flag is set, and a
\* line is added to the summary, only in the step that follows create and
\* read-back in this order, the read-back having returned 200 with the
\* record's own user_id and program_id for the id the create returned; the
\* summary line is that record's and is added only together with the flag.
C3_VerificationGate ==
    [][/\ \A i \in 1..Len(fp_mysql) :
              (fp_pc \in {"insert", "receipt", "mark"} /\ Flipped(i))
                  => ReadBackPositive(fp_mysql[i])
       /\ Len(fp_summary') > Len(fp_summary) =>
              \E i \in 1..Len(fp_mysql) :
                  /\ ReadBackPositive(fp_mysql[i])
                  /\ fp_mysql'[i].synced_to_notion
                  /\ fp_summary' = Append(fp_summary,
                                          <<"Inserted", fp_mysql[i].user_id,
                                            fp_mysql[i].program_id>>)]_vars

\* One record went through create, read-back and flag update and is in the
\* summary, while the page created for another row was not confirmed and
\* that row is still unsynced.
C3_Witness ==
    /\ fp_summary # <<>>
    /\ \E id \in fp_created : \E i \in 1..Len(fp_mysql) :
          /\ fp_store[id].title = <<ToString(fp_mysql[i].user_id)>>
          /\ ~fp_mysql[i].synced_to_notion

\* C4 as stated: in both run modes a row's flag is set only after
\* verify_notion_record_exists has re-read a page by id in that run and
\* found the row's identity.
C4_MarkOnlyAfterReadBack ==
    [][\A i \in 1..Len(fp_mysql) :
           Flipped(i) => ReadBackPositive(fp_mysql[i])]_vars

\* The complete snapshot of the running full validation holds a page with
\* the key of row r.
SeenInSnapshot(r) ==
    /\ fp_mode = "full" /\ fp_pc = "validate"
    /\ LastPageSeen
    /\ \E j \in 1..Len(fp_notion) :
          /\ fp_notion[j].title # <<>>
          /\ fp_notion[j].title[1] = ToString(r.user_id)
          /\ fp_notion[j].number = <<r.program_id>>

\* C4, amended: a row's flag is set only when its key was observed remotely
\* in that run: by a positive read-back of the page just created for it, or,
\* in full validation, by a page with its key in the fetched snapshot
\* (without any read-back by id).
C4_MarkOnlyWhenSeenRemotely ==
    [][\A i \in 1..Len(fp_mysql) :
           Flipped(i) => \/ ReadBackPositive(fp_mysql[i])
                         \/ SeenInSnapshot(fp_mysql[i])]_vars

\* Full validation has set the flag of a row that was unsynced when the run
\* fetched it, without creating or reading a page.
C4_Witness ==
    /\ fp_mode = "full" /\ fp_pc \in {"insert", "orphans"}
    /\ fp_created = {}
    /\ \E i \in 1..Len(fp_rows) :
          ~fp_rows[i].synced_to_notion /\ fp_mysql[i].synced_to_notion

\* C5 as stated: over any sequence of runs the database holds at most one
\* page per source key that the driver created.
C5_AtMostOnePagePerKey ==
    \A i \in 1..Len(fp_mysql) :
        Cardinality({id \in fp_created :
                        /\ fp_store[id].title = <<ToString(fp_mysql[i].user_id)>>
                        /\ fp_store[id].number = <<fp_mysql[i].program_id>>}) <= 1

\* A page of the users database whose number is the id of no source row.
UsOrphan(page) ==
    \/ ~page.has_id
    \/ \A i \in 1..Len(us_mysql) : page.num # <<us_mysql[i].id>>

\* A page of the faculty_program database whose key is the key of no row.
FpOrphan(page) ==
    \A i \in 1..Len(fp_mysql) :
        \/ page.title # <<ToString(fp_mysql[i].user_id)>>
        \/ page.number # <<fp_mysql[i].program_id>>

\* C6: no step of a run of users-sync-to-notion or fp-sync-to-notion removes
\* a page, and a page whose key is in no source row is left exactly as it
\* was; the only requests sent are creates and updates of pages that are
\* not orphans.
C6_OrphansUntouched ==
    [][/\ Len(us_store') >= Len(us_store)
       /\ \A j \in 1..Len(us_store) :
             /\ us_store'[j].id = us_store[j].id
             /\ UsOrphan(us_store[j]) => us_store'[j] = us_store[j]
       /\ \A w \in us_writes' \ us_writes :
             \/ w.op = "POST"
             \/ w.op = "PATCH" /\ ~UsOrphan(us_store[w.page])
       /\ Len(fp_store') >= Len(fp_store)
       /\ \A j \in 1..Len(fp_store) :
             /\ fp_store'[j].id = fp_store[j].id
             /\ FpOrphan(fp_store[j]) => fp_store'[j] = fp_store[j]]_vars

\* A run of either driver has reported an orphan and has finished its
\* writes: users-sync after an update request, fp-sync after a create.
C6_Witness ==
    \/ /\ us_pc = "done"
       /\ us_lists.orphaned # <<>>
       /\ \E w \in us_writes : w.op = "PATCH"
    \/ /\ fp_pc = "finish"
       /\ fp_orphans # <<>>
       /\ fp_created # {}

-----------------------------------------------------------------------------
(* users-sync differ run twice: C11                                        *)

\* A text with None read as '' and the blanks at both ends removed.
Trimmed(v) == IF v = None THEN <<>> ELSE strip(v)

\* Every source row has a page under its id, and every page under the id of
\* a source row shows that row's text in all seven compared columns.
RemoteEqualsSource ==
    \A i \in 1..Len(df_mysql) :
        /\ \E j \in 1..Len(df_notion) :
              df_notion[j].has_id /\ df_notion[j].num = <<df_mysql[i].id>>
        /\ \A j \in 1..Len(df_notion) :
              (df_notion[j].has_id /\ df_notion[j].num = <<df_mysql[i].id>>) =>
                  \A f \in Fields :
                      Trimmed(RemoteValue(df_notion[j], f)) = Trimmed(df_mysql[i][f])

\* C11 as stated: on snapshots whose remote side already equals the source,
\* the classification run twice ends both times, with no update_records and
\* no new_records either time.
C11_TwoPassesFindNothing ==
    (RemoteEqualsSource /\ df_out.st # "none") =>
        /\ df_out.st # "raised"
        /\ df_out.res.update_records = <<>> /\ df_out.res.new_records = <<>>
        /\ df_out.st = "reclassified" =>
              /\ ~df_out.res2.raised
              /\ df_out.res2.update_records = <<>>
              /\ df_out.res2.new_records = <<>>

-----------------------------------------------------------------------------
(* fp-sync and pages that differ from their row: C12                       *)

\* C12 as stated: when a full validation has run to its end, every page of
\* the fetched snapshot that carries the key of a source row and differed
\* from it in the email column has been brought to the row's value.  (The
\* run has no step that sends an update, so such a page stays as it was.)
C12_MismatchedPageUpdated ==
    (fp_mode = "full" /\ fp_pc = "finish") =>
        \A i \in 1..Len(fp_rows) : \A j \in 1..Len(fp_notion) :
            (/\ fp_notion[j].title = <<ToString(fp_rows[i].user_id)>>
             /\ fp_notion[j].number = <<fp_rows[i].program_id>>
             /\ ~values_are_equal(fp_notion[j].email, fp_rows[i].email))
                => values_are_equal(fp_store[fp_notion[j].id].email,
                                    fp_rows[i].email)

-----------------------------------------------------------------------------
(* The confirmation prompts: C13                                           *)

\* The kinds of summary lines the update loop and the insert loop of
\* users-sync write.
UpdateLines == {"Updated", "ERROR updating"}

InsertLines == {"Inserted", "ERROR inserting"}

SummaryKinds == {us_summary[k].kind : k \in 1..Len(us_summary)}

\* C13: when the answer to a batch prompt is not 'yes' (blanks at the ends
\* and case aside), nothing of that batch happens: users-sync sends no PATCH
\* and writes no update line after a declined update prompt, sends no POST
\* and writes no insert line after a declined insert prompt; fp-sync in
\* incremental mode sends no create, sets no flag and returns an empty
\* summary after a declined prompt.
C13_DeclinedBatchSkipped ==
    /\ us_hist.updates = "other" =>
          /\ \A w \in us_writes : w.op # "PATCH"
          /\ SummaryKinds \cap UpdateLines = {}
    /\ us_hist.inserts = "other" =>
          /\ \A w \in us_writes : w.op # "POST"
          /\ SummaryKinds \cap InsertLines = {}
    /\ fp_hist.answer = "other" =>
          /\ ~fp_hist.wrote
          /\ fp_summary = <<>>
          /\ fp_pc \in {"finish", "start"}

\* A run of users-sync in which the update batch was declined and the insert
\* batch accepted has ended, or a run of fp-sync has ended after its batch
\* of unsynced rows was declined.
C13_Witness ==
    \/ /\ us_pc = "done"
       /\ us_hist.updates = "other" /\ us_hist.inserts = "yes"
       /\ \E w \in us_writes : w.op = "POST"
    \/ /\ fp_pc = "start" /\ fp_hist.answer = "other"
       /\ \E i \in 1..Len(fp_mysql) : ~fp_mysql[i].synced_to_notion

-----------------------------------------------------------------------------
(* fp-sync insert_into_notion and its retries: C14                         *)

\* The last answer to a create of the record being inserted was an error
\* status other than 429, or a body that does not decode.
PostFailed ==
    /\ fp_cur.posts > 0
    /\ fp_cur.post_status # 429
    /\ fp_cur.post_status >= 400 \/ ~fp_cur.post_json

\* C14: insert_into_notion sends a create again only after a 429: while the
\* call is running every answer so far was a 429 and at most 5 creates were
\* answered; after an answer that is neither a success nor a 429 the call
\* has returned None and one create was sent for it (plus one per 429
\* before it); after a sixth 429 in a row the call has returned None with
\* six creates sent; no call sends more than six.
C14_RetryOnlyOn429 ==
    /\ fp_cur.posts <= 6
    /\ fp_pc = "insert" =>
          /\ fp_cur.posts > 0 => fp_cur.post_status = 429
          /\ fp_cur.posts = fp_cur.retry_attempts /\ fp_cur.posts <= 5
    /\ (fp_pc = "receipt" /\ PostFailed) =>
          /\ fp_cur.insert_response.kind = "None"
          /\ fp_cur.posts = fp_cur.retry_attempts + 1
    /\ (fp_pc = "receipt" /\ fp_cur.post_status = 429) =>
          /\ fp_cur.insert_response.kind = "None"
          /\ fp_cur.posts = 6

\* A create was answered with an error status at the first attempt and the
\* call returned None after that one request.
C14_Witness ==
    /\ fp_pc = "receipt"
    /\ fp_cur.post_status = 500
    /\ fp_cur.posts = 1
    /\ fp_cur.insert_response.kind = "None"

-----------------------------------------------------------------------------
(* Mutations answered with a rate limit: C15                               *)

\* C15 as stated: a create or update of users-sync that was answered with
\* an error status (429 among them) is sent again for the same record
\* before the run ends.
C15_RefusedMutationResent ==
    us_pc = "done" =>
        \A k \in 1..Len(us_hist.requests) :
            us_hist.requests[k].outcome = "refused" =>
                \E l \in (k + 1)..Len(us_hist.requests) :
                    /\ us_hist.requests[l].op = us_hist.requests[k].op
                    /\ us_hist.requests[l].rec = us_hist.requests[k].rec

\* C16: in fetch_notion_records a 429 or 504 answer is followed by the same
\* page request (same cursor, nothing accumulated); a page may be retried
\* five times in a row and the sixth 429/504 in a row ends the fetch and the
\* process; a received page sets the counter back to 0, so the counter always
\* equals the number of 429/504 answers in a row for the current page.
C16_RetryBudgetPerPage ==
    [][(fp_pc = "fetch" /\ fp_hist' # fp_hist) =>
          /\ fp_hist'.streak <= fetch_max_retries + 1
          /\ fp_hist'.last.retryable =>
                /\ fp_fetch'.retry_attempts = fp_hist'.streak
                /\ fp_fetch'.start_cursor = fp_fetch.start_cursor
                /\ fp_fetch'.all_records = fp_fetch.all_records
                /\ fp_hist'.streak <= fetch_max_retries => fp_pc' = "fetch"
                /\ fp_hist'.streak = fetch_max_retries + 1 => fp_pc' = "exited"
          /\ fp_hist'.last.page =>
                /\ fp_fetch'.retry_attempts = 0
                /\ fp_hist'.streak = 0]_vars

\* A second page that is asked for the sixth time after five 429/504 answers,
\* the first page having been received.
C16_Witness ==
    /\ fp_pc = "fetch"
    /\ fp_fetch.all_records # <<>>
    /\ fp_hist.last.retryable
    /\ fp_hist.streak = fetch_max_retries

\* C17: in fetch_notion_records and in the two drain loops of link-records
\* the first request carries no cursor, every later request carries the
\* next_cursor of the page received last, and a request that follows a 429
\* or 504 answer carries the cursor of the request before it; when the
\* server has said has_more = false the pages gathered are the pages of the
\* database, in order.
C17_CursorProtocol ==
    [][/\ (fp_pc = "fetch" /\ fp_hist' # fp_hist) =>
            /\ fp_hist'.last.cursor = fp_hist.cursor_given
            /\ fp_hist.last = NoQuery => fp_hist'.last.cursor = 0
            /\ fp_hist.last.retryable =>
                    fp_hist'.last.cursor = fp_hist.last.cursor
            /\ fp_pc' = "validate" => fp_notion' = fp_store
       /\ (lr_pc \in {"faculty", "programs"} /\ lr_hist' # lr_hist) =>
            /\ lr_hist'.run.last.cursor = lr_hist.run.last.cursor_given
            /\ lr_q.records = <<>> => lr_hist'.run.last.cursor = 0
            /\ lr_hist.run.last.retryable =>
                    lr_hist'.run.last.cursor = lr_hist.run.last.cursor
            /\ lr_pc \in lr_hist'.run.complete =>
                    lr_records'[lr_pc] = lr_db[lr_pc]]_vars

\* The request for a later page of the programs database was answered 429 or
\* 504, the faculty database having been read to its end over several pages.
C17_Witness ==
    /\ lr_pc = "programs"
    /\ "faculty" \in lr_hist.run.complete
    /\ Len(lr_records.faculty) > PageSize
    /\ lr_hist.run.last.retryable
    /\ lr_hist.run.last.cursor # 0

\* An answer to a query of fetch_notion_records that is neither a page nor a
\* 429/504, or no answer at all, has just ended the loop.
FpQueryFailed ==
    /\ fp_pc = "fetch"
    /\ <<fp_pc, fp_fetch, fp_hist>>' # <<fp_pc, fp_fetch, fp_hist>>
    /\ ~fp_hist'.last.page /\ ~fp_hist'.last.retryable

\* A request of query_database has just been made.
LrQueried ==
    /\ lr_pc \in {"faculty", "programs"}
    /\ <<lr_pc, lr_q, lr_hist>>' # <<lr_pc, lr_q, lr_hist>>

\* C18 as stated: in fetch_notion_records and in query_database a failure
\* other than a 429 or 504 answer (another error status, no connection, a
\* body that is not JSON) is never followed by the same request again: the
\* fetch fails.
C18_OnlyRateLimitRetried ==
    [][/\ FpQueryFailed => fp_pc' \in {"exited", "crashed"}
       /\ (LrQueried /\ lr_hist'.run.last.failed
             /\ ~lr_hist'.run.last.retryable) => lr_pc' = "crashed"]_vars

\* C18, amended: fetch_notion_records asks again only after a 429 or 504
\* answer and fails on every other failure; query_database asks again, with
\* the same cursor, after every failed attempt of whatever kind, and raises
\* once MAX_RETRIES attempts in a row have failed.
C18_RetryableConditions ==
    [][/\ FpQueryFailed => fp_pc' \in {"exited", "crashed"}
       /\ (LrQueried /\ lr_hist'.run.last.failed) =>
            IF lr_q.attempt + 1 < MAX_RETRIES
            THEN /\ lr_pc' = lr_pc
                 /\ lr_q' = [lr_q EXCEPT !.attempt = lr_q.attempt + 1]
            ELSE lr_pc' = "crashed"]_vars

\* query_database is about to ask again after a failure that was not a 429
\* or 504 answer.
C18_Witness ==
    /\ lr_pc \in {"faculty", "programs"}
    /\ lr_q.attempt > 0
    /\ lr_hist.run.last.failed
    /\ ~lr_hist.run.last.retryable

\* C19: a run of link-records sends an update_relation request or appends
\* to the file only if both drain loops were ended by the server saying
\* has_more = false; a loop that ends otherwise (query_database used up its
\* attempts, or a body without 'results') ends the run.
C19_CompleteOrAbort ==
    /\ lr_pc \in {"load", "match", "done"} =>
            lr_hist.run.complete = {"faculty", "programs"}
    /\ lr_hist.run.requests # {} =>
            lr_hist.run.complete = {"faculty", "programs"}

\* C20: the file is read whole before the match loop, and a run sends no
\* update_relation request for a relation that an earlier run recorded or
\* that was in the file before the first run; nor does it send one twice
\* for a relation it has recorded itself.
C20_RecordedNeverRequested ==
    [][/\ (lr_pc = "load" /\ lr_pc' = "match") =>
            lr_match'.existing = lr_hist.recorded
       /\ \A relation \in lr_hist'.run.requests \ lr_hist.run.requests :
            /\ lr_pc = "match"
            /\ relation \notin lr_hist.recorded
            /\ relation \notin lr_hist.run.loaded]_vars

\* A later run has come to the end of its match loop without a request,
\* having read from the file a relation of the second or a later program
\* page: the files drawn at the start name the first program page only, so
\* an earlier run recorded it.
C20_Witness ==
    /\ lr_pc = "done"
    /\ lr_run > 1
    /\ lr_hist.run.requests = {}
    /\ \E k \in 2..Len(lr_records.programs) :
          \E f \in 1..Len(lr_records.faculty) :
             relation_key(lr_records.programs[k].id, lr_records.faculty[f].id)
                 \in lr_hist.run.loaded

\* C21: when the query of the source database fails in fp-sync-to-notion the
\* run stops: it does not go on to classify or report against the remote
\* database, it reports no page as orphaned and it writes nothing.
C21_SourceFailureAborts ==
    fp_hist.source_failed =>
        /\ fp_pc \notin {"validate", "orphans"}
        /\ fp_orphans = <<>>
        /\ ~fp_hist.wrote

\* C22: in fp-sync-to-notion a row whose Category or Time is NULL does not
\* end the run: no run stops on an exception raised while the fields of
\* such a row are put into the create request.
C22_MissingFieldDoesNotAbort ==
    ~(/\ fp_pc = "crashed"
      /\ fp_cur.events = <<"raise">>
      /\ fp_new[fp_i].Category = None \/ fp_new[fp_i].Time = None)

\* The text is made of blanks only, or is empty.
BlankText(v) == IsStr(v) /\ \A i \in 1..Len(v) : v[i] = " "

\* The text is a numeral with nothing but blanks around it.
NumeralIn(v, digits) ==
    /\ IsStr(v) /\ digits # <<>>
    /\ \A i \in 1..Len(digits) : digits[i] \in {"0", "1"}
    /\ \E i, j \in 0..Len(v) :
          /\ v = [k \in 1..i |-> " "] \o digits \o [k \in 1..j |-> " "]

\* The number a numeral of the digits 0 and 1 denotes in base ten.
RECURSIVE Denoted(_)
Denoted(digits) ==
    IF digits = <<>> THEN 0
    ELSE (IF Head(digits) = "1" THEN 1 ELSE 0) * 10 ^ (Len(digits) - 1)
         + Denoted(Tail(digits))

\* C23: insert_into_notion sends a Time that is None, empty or made of
\* blanks as null and never as 0, and a Time that is a numeral, with or
\* without blanks around it, as the number it denotes: '0' is sent as 0.
C23_BlankTimeIsAbsent ==
    (pr_out.st = "built" /\ pr_rec.Category # None) =>
        /\ (pr_rec.Time = None \/ BlankText(pr_rec.Time)) =>
                ~pr_out.raises /\ pr_out.time = <<>>
        /\ \A digits \in UNION {[1..k -> {"0", "1"}] : k \in 1..MaxStrLen} :
                NumeralIn(pr_rec.Time, digits) =>
                    ~pr_out.raises /\ pr_out.time = <<Denoted(digits)>>

\* The text '0', with or without a blank before it, has been sent as 0.
C23_Witness ==
    /\ pr_out.st = "built"
    /\ pr_rec.Category # None
    /\ pr_rec.Time \in {<<"0">>, <<" ", "0">>}
    /\ pr_out.time = <<0>>

\* The fetched record has an address that extraction yields.
HasAddress(rec) == ~rec.broken /\ rec.title # <<>> /\ rec.title[1] # <<>>

\* The fetched records whose address is e when letter case is ignored.
Carrying(e) ==
    {i \in 1..Len(cd_records) :
        HasAddress(cd_records[i]) /\ lower(cd_records[i].title[1]) = e}

\* The buckets of find_duplicates the record of the id has been put in.
BucketsOf(id) ==
    LET res == cd_out.res
    IN  {<<"duplicate", e>> : e \in {k \in DOMAIN res.duplicates :
                \E j \in 1..Len(res.duplicates[k]) : res.duplicates[k][j] = id}}
        \cup {<<"unique", e>> : e \in {k \in DOMAIN res.unique_records :
                res.unique_records[k] = id}}
        \cup {<<"invalid", <<>>>> : j \in {k \in 1..Len(res.invalid_records) :
                res.invalid_records[k] = id}}

\* C24: find_duplicates puts every fetched record in exactly one of a
\* duplicate group, the unique set and the invalid list; an address is a
\* duplicate if and only if two or more fetched records carry it, letter
\* case ignored; a record without address, or on which extraction fails,
\* is in the invalid list and in no group.
C24_ThreeBuckets ==
    cd_out.st = "done" =>
        /\ \A i \in 1..Len(cd_records) :
              /\ Cardinality(BucketsOf(cd_records[i].id)) = 1
              /\ Cardinality({j \in 1..Len(cd_out.res.invalid_records) :
                     cd_out.res.invalid_records[j] = cd_records[i].id}) <= 1
              /\ ~HasAddress(cd_records[i]) <=>
                     BucketsOf(cd_records[i].id) = {<<"invalid", <<>>>>}
        /\ \A e \in {<<"a">>, <<"b">>, <<"A">>} :
              /\ e \in DOMAIN cd_out.res.duplicates <=>
                     Cardinality(Carrying(e)) >= 2
              /\ e \in DOMAIN cd_out.res.duplicates =>
                     Len(cd_out.res.duplicates[e]) = Cardinality(Carrying(e))
              /\ e \in DOMAIN cd_out.res.unique_records <=>
                     Cardinality(Carrying(e)) = 1

\* Two records carry one address in different letter case and a third has
\* none.
C24_Witness ==
    /\ cd_out.st = "done"
    /\ <<"a">> \in DOMAIN cd_out.res.duplicates
    /\ \E i, j \in 1..Len(cd_records) :
          /\ HasAddress(cd_records[i]) /\ HasAddress(cd_records[j])
          /\ cd_records[i].title[1] = <<"a">>
          /\ cd_records[j].title[1] = <<"A">>
    /\ cd_out.res.invalid_records # <<>>

\* C25: a full validation of fp-sync-to-notion that has come to its end
\* has reported every fetched page that has no user_id title: the page is
\* named in a report of the run (the run's only report of pages is the
\* list of orphans).
C25_UntitledPageReported ==
    (fp_pc = "finish" /\ fp_mode = "full") =>
        \A k \in 1..Len(fp_notion) :
            fp_notion[k].title = <<>> =>
                \E j \in 1..Len(fp_orphans) : fp_orphans[j] = fp_notion[k]

\* The two pages have addresses that are equal once the blanks around them
\* are dropped and the letters are lowered.
SameAddress(program, faculty) ==
    /\ program.email # <<>> /\ faculty.email # <<>>
    /\ lower(strip(program.email[1])) = lower(strip(faculty.email[1]))

-----------------------------------------------------------------------------
(* Outcome of a record in the users-sync summary: C27                      *)

\* The run has sent a request of the kind for the record and the server
\* has answered it with an error status.
Refused(op, id) ==
    \E l \in 1..Len(us_hist.requests) :
        /\ us_hist.requests[l].op = op
        /\ us_hist.requests[l].rec = id
        /\ us_hist.requests[l].outcome = "refused"

\* C27: at the end of a run of users-sync the summary names no record as
\* 'Updated' whose update request the server refused, and no record as
\* 'Inserted' whose create request the server refused.
C27_SummaryTellsOutcome ==
    us_pc = "done" =>
        \A k \in 1..Len(us_summary) :
            /\ us_summary[k].kind = "Updated" =>
                    ~Refused("PATCH", us_summary[k].id)
            /\ us_summary[k].kind = "Inserted" =>
                    ~Refused("POST", us_summary[k].id)

\* How often insert_into_notion has started sending the create of the
\* user's record in this run.
CreatesOf(uid) ==
    Cardinality({k \in 1..Len(fp_hist.creates) : fp_hist.creates[k] = uid})

\* run_full_validation holds a snapshot fetched to its last page.
FullWithSnapshot == fp_mode = "full" /\ ~fp_fetch.has_more

\* The positions of the fetched rows whose key no page of the snapshot has.
AbsentRows ==
    {i \in 1..Len(fp_rows) :
        mysql_key(fp_rows[i]) \notin lookup_keys(notion_lookup(fp_notion))}

\* The process has ended, and not because a request found no connection.
EndedConnected ==
    /\ fp_run > 0
    /\ \/ fp_pc = "start"
       \/ fp_pc = "crashed" /\ fp_cur.events = <<"raise">>

\* A create is never issued twice for a row with an absent key, and once
\* the process has ended it has been issued once.
OneCreatePerAbsentKey ==
    FullWithSnapshot =>
        \A i \in AbsentRows :
            /\ CreatesOf(fp_rows[i].user_id) <= 1
            /\ EndedConnected => CreatesOf(fp_rows[i].user_id) = 1

\* The summary names a row with an absent key exactly if its flag was
\* written after its create had returned an id and the read-back had shown
\* its key.
InsertedLineIffSynced ==
    FullWithSnapshot =>
        \A i \in AbsentRows :
            (\E k \in 1..Len(fp_summary) : fp_summary[k] = FpLine(fp_rows[i]))
            <=> [user_id |-> fp_rows[i].user_id, receipt |-> TRUE,
                 verified |-> TRUE] \in fp_hist.persisted

\* With an empty snapshot every fetched row is new, and a row whose flag
\* this run has set has had its create and its read-back.
EmptySnapshotAllNew ==
    (FullWithSnapshot /\ fp_notion = <<>> /\ fp_pc # "validate") =>
        /\ fp_new = fp_rows
        /\ \A i \in 1..Len(fp_rows) :
              (fp_mysql[i].synced_to_notion /\ ~fp_rows[i].synced_to_notion)
              => /\ CreatesOf(fp_rows[i].user_id) = 1
                 /\ [user_id |-> fp_rows[i].user_id, receipt |-> TRUE,
                     verified |-> TRUE] \in fp_hist.persisted

\* C28: in full validation a source record whose key is absent from the
\* complete snapshot gets exactly one create; its 'Inserted record' line is
\* in the summary if and only if the create returned an id, the read-back
\* verified and the flag was persisted; with an empty snapshot every source
\* record is new and none is marked before its own create and verification.
C28_OneCreatePerNewRecord ==
    /\ OneCreatePerAbsentKey
    /\ InsertedLineIffSynced
    /\ EmptySnapshotAllNew

\* The ids of a list of pages, in its order.
PageIds(records) == [k \in 1..Len(records) |-> records[k].id]

\* The ids the server has delivered to the running fetch, each once.
DeliveredIds == {fp_hist.delivered[k] : k \in 1..Len(fp_hist.delivered)}

\* C29: when the server delivers a page id again, fetch_notion_records of
\* fp-sync goes on: a delivered page never ends the fetch, every delivered
\* item is in the collection (and in the returned one) as often as it was
\* delivered, the unique-id set holds each delivered id, and each repeated
\* delivery is logged.
C29_DuplicateDeliveryKept ==
    /\ fp_hist.last.page => fp_fetch.loop = "continue" /\ fp_pc # "exited"
    /\ PageIds(fp_fetch.all_records) = fp_hist.delivered
    /\ fp_fetch.unique_ids = DeliveredIds
    /\ Len(fp_fetch.warnings) =
           Len(fp_hist.delivered) - Cardinality(DeliveredIds)
    /\ fp_pc = "validate" =>
           /\ ~fp_fetch.has_more
           /\ PageIds(fp_notion) = fp_hist.delivered

\* The fetch has returned a collection that holds an item twice, with a
\* warning for it.
C29_Witness ==
    /\ fp_pc = "validate"
    /\ fp_fetch.warnings # <<>>
    /\ Len(fp_notion) > Cardinality(fp_fetch.unique_ids)

\* The updates of the running run that were answered 200, in the order sent.
OkPatches == SelectSeq(lr_hist.run.patched, LAMBDA r : r.outcome = "ok")

OkKeys == {OkPatches[k].key : k \in 1..Len(OkPatches)}

\* The relations whose update was answered by an error in the running run.
RefusedKeys ==
    {lr_hist.run.patched[k].key : k \in 1..Len(lr_hist.run.patched)} \ OkKeys

\* A line of the file without its line end.
LineKey(line) == SubSeq(line, 1, Len(line) - 1)

\* The relations on the lines the running run has appended to the file.
AppendedKeys ==
    [k \in 1..(Len(lr_file) - lr_hist.run.start_len) |->
        LineKey(lr_file[lr_hist.run.start_len + k])]

\* The relation the running pass of the match loop is about to look up in
\* existing_relations, in a set; empty when the program page has no address
\* or no faculty page has it.
PairAtHand ==
    IF lr_pc = "match" /\ lr_match.i <= Len(lr_records.programs)
    THEN LET program == lr_records.programs[lr_match.i]
         IN  IF program.email = <<>> THEN {}
             ELSE {relation_key(program.id, lr_match.index[e]) :
                     e \in {normalize_email(program.email[1])}
                           \cap DOMAIN lr_match.index}
    ELSE {}

\* C30: in link-records a relation key enters existing_relations and the
\* file only with an update of that pair answered 200; a key whose update
\* failed is in neither, and in the next run its pair is requested again;
\* the file only grows at its end; and a run appends at most one line per
\* key, also when the program page is delivered twice.
C30_LedgerFollowsSuccess ==
    [][/\ Len(lr_file') >= Len(lr_file)
       /\ SubSeq(lr_file', 1, Len(lr_file)) = lr_file
       /\ lr_match'.existing = lr_hist'.run.loaded \cup OkKeys'
       /\ lr_run' > 0 =>
             AppendedKeys' = [k \in 1..Len(OkPatches') |-> OkPatches'[k].key]
       /\ \A key \in RefusedKeys' :
             /\ key \notin lr_match'.existing
             /\ \A k \in 1..Len(lr_file') : LineKey(lr_file'[k]) # key
       /\ \A j, k \in 1..Len(AppendedKeys') :
             AppendedKeys'[j] = AppendedKeys'[k] => j = k
       /\ \A key \in (PairAtHand \cap lr_hist.failed_before) \ OkKeys :
             /\ Len(lr_hist'.run.patched) = Len(lr_hist.run.patched) + 1
             /\ lr_hist'.run.patched[Len(lr_hist'.run.patched)].key = key
      ]_<<lr_pc, lr_file, lr_match, lr_hist>>

\* A relation whose update failed in the first run has been requested again
\* and recorded in the second, in which the server delivered its program
\* page twice.
C30_Witness ==
    /\ lr_run = 2 /\ lr_pc = "done"
    /\ \E key \in lr_hist.failed_before \cap OkKeys :
          \E j, k \in 1..Len(lr_records.programs) :
              /\ j < k
              /\ lr_records.programs[j].id = key[1]
              /\ lr_records.programs[k].id = key[1]

\* The user ids of a list of rows, in its order.
UserIds(rows) == [k \in 1..Len(rows) |-> rows[k].user_id]

\* The rows of the running run that insert_into_notion was called for and
\* that the summary does not name.
FailedRows ==
    {k \in 1..Len(fp_new) :
        /\ \E j \in 1..Len(fp_hist.calls) : fp_hist.calls[j] = fp_new[k].user_id
        /\ k < fp_i \/ fp_pc = "crashed"
        /\ \A j \in 1..Len(fp_summary) : fp_summary[j] # FpLine(fp_new[k])}

\* C31: in an incremental run the operator has confirmed, insert_into_notion
\* is called for the unsynced rows in source order, never twice for one, and
\* for every one of them once the process has ended, whatever failed for an
\* earlier row; a row that failed keeps its flag unset.
C31_EveryRecordAttemptedOnce ==
    (fp_mode = "incremental" /\ fp_hist.answer = "yes") =>
        /\ Len(fp_hist.calls) <= Len(fp_new)
        /\ fp_hist.calls = SubSeq(UserIds(fp_new), 1, Len(fp_hist.calls))
        /\ EndedConnected => fp_hist.calls = UserIds(fp_new)
        /\ \A k \in FailedRows :
              \A j \in 1..Len(fp_mysql) :
                  fp_mysql[j].user_id = fp_new[k].user_id
                      => ~fp_mysql[j].synced_to_notion

\* C32: when validate_notion_receipt of fp-sync refuses a record, the error
\* it logs names the record and tells a create that returned no id ('Failed
\* to create record in Notion') from a create that returned one and a
\* read-back that did not show the key ('Record verification failed for');
\* in both cases no synced flag is written.
C32_RefusalsToldApart ==
    [][(fp_pc = "receipt" /\ fp_i' = fp_i + 1) =>
          /\ fp_hist'.report.user_id = fp_new[fp_i].user_id
          /\ ~fp_hist'.report.had_id =>
                fp_hist'.report.line = "Failed to create record in Notion"
          /\ (fp_hist'.report.had_id /\ ~fp_hist'.report.matched) =>
                fp_hist'.report.line = "Record verification failed for"
          /\ fp_hist'.report.line # "none"
          /\ fp_mysql' = fp_mysql]_vars

\* Neither of the two records of a run was synced; the second one's create
\* returned an id and its read-back did not show the key.
C32_Witness ==
    /\ fp_hist.report.line = "Record verification failed for"
    /\ fp_hist.report.had_id /\ ~fp_hist.report.matched
    /\ fp_hist.report.user_id = 2
    /\ Len(fp_hist.calls) = 2 /\ fp_summary = <<>>
    /\ \A j \in 1..Len(fp_mysql) : ~fp_mysql[j].synced_to_notion

\* C33: with USER_CONFIRMATION_MODE set, a run of fp-sync in either mode
\* sends a create request only after the operator has answered 'yes' to a
\* prompt of that run.
C33_CreateOnlyAfterYes ==
    (FP_USER_CONFIRMATION_MODE /\ fp_hist.creates # <<>>) =>
        fp_hist.answer = "yes"

\* The operator declined no batch of the run and the server did every
\* request the run sent.
ConfirmedAndDone ==
    /\ us_pc = "done"
    /\ us_hist.updates # "other" /\ us_hist.inserts # "other"
    /\ \A k \in 1..Len(us_hist.requests) : us_hist.requests[k].outcome = "ok"

\* The database holds one page per number, and the run has read all the
\* pages it held before the creates.
WholeSnapshot ==
    /\ \A j, k \in 1..Len(us_store) : us_store[j].num = us_store[k].num => j = k
    /\ \A k \in 1..Len(us_notion) : us_notion[k].id = k
    /\ Len(us_notion) + Len(us_lists.new_records) = Len(us_store)

\* C34: after a run of users-sync in which the operator confirmed both
\* batches and every request succeeded, the classification of a second run
\* over the same source rows and the database as the run left it finds no
\* record to update and none to insert, also for a row whose department,
\* college or status is NULL.
C34_SecondRunFindsNothing ==
    (ConfirmedAndDone /\ WholeSnapshot) =>
        LET again == classify(us_mysql, us_store)
        IN  /\ ~again.raised
            /\ again.update_records = <<>>
            /\ again.new_records = <<>>

\* The final snapshot holds, for source row i, a page with the row's id that
\* shows the row's text in all seven compared columns.
PageInSync(i) ==
    \E j \in 1..Len(us_final.records) :
        LET page == us_final.records[j]
        IN  /\ page.has_id /\ page.num = <<us_mysql[i].id>>
            /\ \A f \in Fields :
                  Trimmed(RemoteValue(page, f)) = Trimmed(us_mysql[i][f])

\* C35: the final verification of users-sync reports 'All records are now
\* in sync!' only if every source record has, in the final snapshot, a page
\* with its id and all seven compared fields equal; a record whose create
\* failed or was declined, or whose page is missing, prevents the message.
C35_InSyncMeansInSync ==
    (us_pc = "done" /\ us_final.in_sync) =>
        \A i \in 1..Len(us_mysql) : PageInSync(i)

\* The rows whose flag was unset when the run read the source and is set
\* now.
FlaggedInRun ==
    {i \in 1..Len(fp_mysql) :
        /\ fp_mysql[i].synced_to_notion
        /\ \E r \in {fp_rows[k] : k \in 1..Len(fp_rows)} \cup
                  {fp_new[k] : k \in 1..Len(fp_new)} :
              /\ r.user_id = fp_mysql[i].user_id
              /\ r.program_id = fp_mysql[i].program_id
              /\ ~r.synced_to_notion}

\* The database holds a page with exactly the key of r that the snapshot of
\* the run contains.
InSnapshot(r) ==
    \E j \in 1..Len(fp_notion) :
        /\ fp_notion[j].title = <<ToString(r.user_id)>>
        /\ fp_notion[j].number = <<r.program_id>>
        /\ fp_notion[j].id \in 1..Len(fp_store)
        /\ fp_store[fp_notion[j].id] = fp_notion[j]

\* The database holds a page with exactly the key of r that the driver
\* created, and the run has read it back with that key.
ReadBack(r) ==
    /\ \E id \in fp_created :
          /\ fp_store[id].title = <<ToString(r.user_id)>>
          /\ fp_store[id].number = <<r.program_id>>
    /\ \E p \in fp_hist.persisted :
          p.user_id = r.user_id /\ p.receipt /\ p.verified

\* C36: whenever a run of fp-sync has set the synced flag of a source key,
\* a page with exactly that key was observed in the database during the
\* run, in the fetched snapshot or by the read-back of the page created for
\* it; no flag is set for a key that was not observed.
C36_FlagMeansObserved ==
    \A i \in FlaggedInRun : InSnapshot(fp_mysql[i]) \/ ReadBack(fp_mysql[i])

\* A full validation has flagged one row from the snapshot and another by
\* the read-back of its new page.
C36_Witness ==
    /\ fp_mode = "full" /\ fp_pc = "finish"
    /\ \E i, k \in FlaggedInRun :
          /\ InSnapshot(fp_mysql[i]) /\ ~ReadBack(fp_mysql[i])
          /\ ReadBack(fp_mysql[k]) /\ ~InSnapshot(fp_mysql[k])

\* Page j of the users database is, in the snapshot the run classified,
\* the page of a source row from which it differs in a compared column.
PairedAndDiffers(j) ==
    \E k \in 1..Len(us_notion) : \E i \in 1..Len(us_mysql) :
        /\ us_notion[k].id = j /\ us_notion[k].has_id
        /\ us_notion[k].num = <<us_mysql[i].id>>
        /\ DiffFields(us_notion[k], us_mysql[i]) # {}

\* The update requests sent in the step.
NewPatches == {w \in us_writes' \ us_writes : w.op = "PATCH"}

\* C37: users-sync sends an update request only to a page paired with a
\* source record that needs an update, and no other page of the database
\* changes: pages of unchanged records and orphans get no write; fp-sync in
\* incremental mode changes no existing page and sends creates and
\* read-backs only (an exception raised while a payload is built sends
\* nothing).
C37_WritesOnlyWhereNeeded ==
    [][/\ \A w \in NewPatches :
             w.page \in 1..Len(us_store) /\ PairedAndDiffers(w.page)
       /\ \A j \in 1..Len(us_store) :
             us_store'[j] # us_store[j] =>
                 /\ [op |-> "PATCH", page |-> j] \in NewPatches
                 /\ PairedAndDiffers(j)
       /\ fp_mode' = "incremental" =>
             /\ \A j \in 1..Len(fp_store) : fp_store'[j] = fp_store[j]
             /\ \A e \in 1..Len(fp_cur'.events) :
                   fp_cur'.events[e] \in {"POST", "GET", "raise"}]_vars

\* A run of users-sync has updated one page and left another page of the
\* database unwritten, or an incremental run of fp-sync has created a page
\* in a database that held pages already.
C37_Witness ==
    \/ /\ us_pc = "done"
       /\ \E a, b \in 1..Len(us_store) :
             /\ [op |-> "PATCH", page |-> a] \in us_writes
             /\ [op |-> "PATCH", page |-> b] \notin us_writes
    \/ /\ fp_mode = "incremental" /\ fp_pc = "finish"
       /\ \E id \in fp_created : id > 1

-----------------------------------------------------------------------------
(* The retry loops of one run: C38                                         *)

\* The first run of fp-sync in full validation, up to the end of its fetch.
RetryFullFetch == fp_run = 0 /\ FpStartFull

\* The first run of fp-sync in incremental mode, up to the return of the
\* first insert_into_notion.
RetryIncremental == fp_run = 0 /\ FpStartIncremental

\* The first run of link-records, up to the end of its two drain loops.
RetryLink == lr_run = 0 /\ LrStart

NextRetry ==
    \/ RetryFullFetch \/ FpFetchStep \/ FpFetchRaises
    \/ RetryIncremental \/ FpConfirm \/ FpBuildRaises \/ FpPost \/ FpPostRaises
    \/ RetryLink \/ LrQuery

\* Each program is one sequential process: a request is answered or raises,
\* every sleep is finite and the prompt is answered, so a process that can
\* take its next step takes it.
SpecRetry == InitPaging /\ [][NextRetry]_vars /\ WF_vars(NextRetry)

\* C38: whatever the server answers, fetch_notion_records of fp-sync ends
\* (it returns or the process ends) and asks for no page more than 6 times;
\* insert_into_notion ends after at most 6 creates; query_database of
\* link-records makes at most MAX_RETRIES attempts and raises only when
\* the MAX_RETRIES-th attempt in a row has failed, so the drain loops end.
C38_RetryLoopsEnd ==
    /\ [](/\ fp_hist.streak <= 6
          /\ fp_pc = "fetch" => fp_hist.streak < 6
          /\ fp_cur.posts <= 6
          /\ lr_q.attempt < MAX_RETRIES
          /\ (lr_pc = "crashed" /\ lr_hist.run.last.failed) =>
                lr_q.attempt = MAX_RETRIES - 1)
    /\ (fp_pc = "fetch") ~> (fp_pc \in {"validate", "exited", "crashed"})
    /\ (fp_pc = "insert") ~> (fp_pc # "insert")
    /\ (lr_pc \in {"faculty", "programs"}) ~> (lr_pc \in {"load", "crashed"})

\* A loop has used up its budget: the fetch has exited at the sixth 429/504
\* in a row for its second page, or a create was answered with a rate limit
\* six times, or the drain of the programs database has raised after
\* MAX_RETRIES failed attempts.
C38_Witness ==
    \/ /\ fp_pc = "exited" /\ fp_hist.streak = 6
       /\ fp_fetch.all_records # <<>>
    \/ /\ fp_pc = "receipt" /\ fp_cur.posts = 6
       /\ fp_cur.post_status = 429
    \/ /\ lr_pc = "crashed" /\ lr_hist.run.last.failed
       /\ lr_q.attempt = MAX_RETRIES - 1
       /\ lr_records.faculty # <<>>

-----------------------------------------------------------------------------
(* check-notion-duplicates report figures: C39                             *)

\* C39 as stated: the 'Total records analyzed' figure of the report equals
\* the number of records fetched, which is the figure of the final console
\* summary, also when records share an address.
C39_TotalIsRecordCount ==
    cd_out.st = "done" =>
        /\ cd_out.total.report = Len(cd_records)
        /\ cd_out.total.report = cd_out.total.console

=============================================================================
